---- MODULE Spec2Model ----
(***************************************************************************)
(* Tilted: the TLV readings protocol between the sensor (ESP8266) and the  *)
(* gateway (ESP32).                                                        *)
(*                                                                         *)
(*   SpecCodec  tilted_encode_readings_packet -> the ESP-NOW link ->       *)
(*              tilted_decode_readings_view, on byte buffers               *)
(*   Spec       the gateway: EspNowReceiver::onRecv staging a record and   *)
(*              the main loop draining it                                  *)
(*                                                                         *)
(* Memory is modelled at the byte level: a buffer is a sequence of bytes   *)
(* 0..255, a pointer into it is a 0-based offset, and the packed structs   *)
(* are laid out little-endian as on both microcontrollers.                 *)
(***************************************************************************)
EXTENDS Integers, Sequences, FiniteSets, TLC

\* ------------------------------------------------------------------ bounds
\* Largest item array handed to the encoder.
MaxItems == 2
\* Number of receive callbacks in one behaviour of the gateway.
MaxRecv == 2

\* ------------------------------------------------- constants of the source
TILTED_PROTOCOL_VERSION == 1
TILTED_MAGIC == 21580
TILTED_MAX_NAME_LEN == 24
\* sizeof(TiltedReadingsHeader), sizeof(TiltedValueItem)
HeaderSize == 12
ItemSize == 8
\* TiltedMsgType
MsgTypeLegacy == 0
MsgTypeReadings == 1
\* TiltedValueType
TypeTilt == 1
TypeTemp == 2
TypeAuxTemp == 3
TypeBatteryMv == 4
TypeIntervalS == 5
TypeRssiDbm == 6

\* ------------------------------------------------ fixed-width integers
\* The bit pattern of v in an unsigned field of n bytes, least significant
\* byte first.
RECURSIVE LE(_, _)
LE(v, n) == IF n = 0 THEN << >> ELSE <<v % 256>> \o LE(v \div 256, n - 1)

\* A signed value as the unsigned value of the same width (two's complement).
\* The 32-bit case is split so that no intermediate leaves the integers the
\* model checker computes with.
I8Bytes(v) == LE(v % 256, 1)
I16Bytes(v) == LE(v % 65536, 2)
I32Bytes(v) ==
    IF v >= 0 THEN LE(v, 4)
    ELSE LET m == v + 2147483647 + 1    \* v + 2^31, in 0 .. 2^31 - 1
             b == LE(m, 4)
         IN  <<b[1], b[2], b[3], b[4] + 128>>

\* The byte at 0-based offset i of memory mem. Offsets beyond the memory do
\* not occur in the program as modelled (DecoderReadsInBounds and
\* ExtractionReadsInBounds state it); the operator is total so that this can
\* be checked rather than assumed.
Peek(mem, i) == IF i >= 0 /\ i < Len(mem) THEN mem[i + 1] ELSE 0

RdU8(mem, off) == Peek(mem, off)
RdU16(mem, off) == Peek(mem, off) + 256 * Peek(mem, off + 1)
RdI8(mem, off) ==
    LET u == Peek(mem, off) IN IF u >= 128 THEN u - 256 ELSE u
RdI16(mem, off) ==
    LET u == RdU16(mem, off) IN IF u >= 32768 THEN u - 65536 ELSE u
RdI32(mem, off) ==
    LET b3 == Peek(mem, off + 3)
        hi == IF b3 >= 128 THEN b3 - 256 ELSE b3
    IN  Peek(mem, off) + 256 * Peek(mem, off + 1)
        + 65536 * Peek(mem, off + 2) + 16777216 * hi
\* chipId is a uint32_t; the model draws chip ids below 2^31, where the
\* unsigned and the signed reading of the four bytes agree.
RdU32(mem, off) == RdI32(mem, off)

\* memcpy(mem + off, bytes, Len(bytes)) into a buffer that has the room.
MemCpy(mem, off, bytes) ==
    [i \in 1..Len(mem) |->
        IF i > off /\ i <= off + Len(bytes) THEN bytes[i - off] ELSE mem[i]]

\* ------------------------------------------------------ struct layouts
\* struct __attribute__((packed)) TiltedReadingsHeader, as bytes.
HeaderBytes(hdr) ==
    LE(hdr.magic, 2) \o LE(hdr.version, 1) \o LE(hdr.msgType, 1)
    \o LE(hdr.chipId, 4) \o LE(hdr.interval_s, 2)
    \o LE(hdr.nameLen, 1) \o LE(hdr.itemCount, 1)

\* Field offsets of TiltedReadingsHeader.
OffMagic == 0
OffVersion == 2
OffMsgType == 3
OffChipId == 4
OffInterval == 8
OffNameLen == 10
OffItemCount == 11

\* struct __attribute__((packed)) TiltedValueItem, as bytes.
ItemBytes(it) ==
    LE(it.type, 1) \o I8Bytes(it.scale10) \o I16Bytes(it.reserved)
    \o I32Bytes(it.value)

\* The TiltedValueItem read at offset off.
ItemAt(mem, off) ==
    [type |-> RdU8(mem, off), scale10 |-> RdI8(mem, off + 1),
     reserved |-> RdI16(mem, off + 2), value |-> RdI32(mem, off + 4)]

RECURSIVE ItemsBytes(_, _)
ItemsBytes(items, n) ==
    IF n = 0 THEN << >>
    ELSE ItemsBytes(items, n - 1) \o ItemBytes(items[n])

\* Faulty variant of tilted_readings_packet_size: the name is left out of
\* the sum. EncodedSize does not survive it.
packet_size_without_name(nameLen, itemCount) ==
    IF nameLen > TILTED_MAX_NAME_LEN THEN 0
    ELSE LET sz == HeaderSize + itemCount * ItemSize
         IN  IF sz > 65535 THEN 0 ELSE sz

\* ------------------------------------------------------------- sizing
tilted_readings_packet_size(nameLen, itemCount) ==
    IF nameLen > TILTED_MAX_NAME_LEN THEN 0
    ELSE LET sz == HeaderSize + nameLen + itemCount * ItemSize
         IN  IF sz > 65535 THEN 0 ELSE sz

\* ------------------------------------------------------------ pointers
\* A pointer to a buffer: null, or the memory it points to.
NullPtr == [null |-> TRUE, mem |-> << >>]
Ptr(mem) == [null |-> FALSE, mem |-> mem]

\* TiltedReadingsView: three pointers into the decoded buffer, as offsets
\* from its start; NullOff is the null pointer.
NullOff == -1
NullView == [header |-> NullOff, name |-> NullOff, items |-> NullOff]

\* ------------------------------------------------------------ encoder
\* Faulty variant of EncodeReject: the magic is already in the destination
\* when the call fails. RejectWritesNothing does not survive it.
EncodeRejectAfterMagic(outBuf) ==
    [ret |-> 0, mem |-> MemCpy(outBuf.mem, 0, LE(TILTED_MAGIC, 2))]

\* `return 0;` before anything is written: the destination is as it was.
EncodeReject(outBuf) == [ret |-> 0, mem |-> outBuf.mem]

\* indet: the bytes found in the fields of the local `hdr` that the function
\* never assigns (version, msgType); `TiltedReadingsHeader hdr;` leaves them
\* indeterminate.
tilted_encode_readings_packet(outBuf, outBufMax, chipId, intervalSeconds, name, nameLen, items, itemCount, indet) ==
    IF outBuf.null \/ name.null \/ (items.null /\ itemCount # 0)
    THEN EncodeReject(outBuf)
    ELSE IF nameLen > TILTED_MAX_NAME_LEN
    THEN EncodeReject(outBuf)
    ELSE LET pktLen == tilted_readings_packet_size(nameLen, itemCount) IN
    IF pktLen = 0 \/ pktLen > outBufMax
    THEN EncodeReject(outBuf)
    ELSE LET hdr == [magic |-> TILTED_MAGIC,
                     version |-> indet.version,
                     msgType |-> indet.msgType,
                     chipId |-> chipId,
                     interval_s |-> intervalSeconds,
                     nameLen |-> nameLen,
                     itemCount |-> itemCount]
             m1 == MemCpy(outBuf.mem, 0, HeaderBytes(hdr))
             m2 == MemCpy(m1, HeaderSize, SubSeq(name.mem, 1, nameLen))
             m3 == IF itemCount # 0
                   THEN MemCpy(m2, HeaderSize + nameLen,
                               ItemsBytes(items.mem, itemCount))
                   ELSE m2
         IN  [ret |-> pktLen, mem |-> m3]

\* ------------------------------------------------------------ decoder
\* Faulty variants of the decoder's conditions.
\* The length is not looked at (DecoderReadsInBounds does not survive it).
TooShortNullOnly(buf, len) == buf.null
\* Only the low byte of the magic is compared (MagicVersionGate).
BadMagicLowByte(mem) == RdU8(mem, OffMagic) # TILTED_MAGIC % 256
\* Newer versions pass (FailFastInOrder).
UnsupportedVersionOlderOnly(mem) ==
    RdU8(mem, OffVersion) < TILTED_PROTOCOL_VERSION
\* A name of exactly the maximum length is refused (DecodeAcceptsExactly).
NameTooLongInclusive(mem) == RdU8(mem, OffNameLen) >= TILTED_MAX_NAME_LEN
\* A buffer shorter than the packet passes (NoPrefixAccepted).
LengthMismatchLongerOnly(len, expected) == expected = 0 \/ len > expected

\* The conditions of the decoder's early returns, in source order.
TooShort(buf, len) == buf.null \/ len < HeaderSize
BadMagic(mem) == RdU16(mem, OffMagic) # TILTED_MAGIC
UnsupportedVersion(mem) == RdU8(mem, OffVersion) # TILTED_PROTOCOL_VERSION
UnsupportedMessageType(mem) == RdU8(mem, OffMsgType) # MsgTypeReadings
NameTooLong(mem) == RdU8(mem, OffNameLen) > TILTED_MAX_NAME_LEN
LengthMismatch(len, expected) == expected = 0 \/ len # expected

\* Faulty variant of ViewInto: the items are taken to follow a name field
\* of the maximum width. ExtractionReadsInBounds does not survive it.
ViewIntoFixedName(mem) ==
    [header |-> 0,
     name |-> HeaderSize,
     items |-> HeaderSize + TILTED_MAX_NAME_LEN]

\* The pointers stored into the view on success.
ViewInto(mem) ==
    [header |-> 0,
     name |-> HeaderSize,
     items |-> HeaderSize + RdU8(mem, OffNameLen)]

\* Faulty variant of DecodeReturn: the out parameter is cleared whenever the
\* call fails. RejectedHasNoEffect does not survive it.
DecodeReturnClearing(ok, out, reads, line) ==
    [ok |-> ok,
     out |-> IF ok THEN out
             ELSE [header |-> NullOff, name |-> NullOff, items |-> NullOff],
     reads |-> reads, line |-> line]

\* The result of one call: the returned bool, the out parameter after the
\* call, the offsets of buf the call has read, and the source line of the
\* return statement taken. Only ok and out are visible to the caller.
DecodeReturn(ok, out, reads, line) ==
    [ok |-> ok, out |-> out, reads |-> reads, line |-> line]

tilted_decode_readings_view(buf, len, out) ==
    IF TooShort(buf, len)
    THEN DecodeReturn(FALSE, out, {}, 117)
    ELSE LET mem == buf.mem
             r1 == {OffMagic, OffMagic + 1}
             r2 == r1 \cup {OffVersion}
             r3 == r2 \cup {OffMsgType}
             r4 == r3 \cup {OffNameLen}
             r5 == r4 \cup {OffItemCount}
         IN
    IF BadMagic(mem)
    THEN DecodeReturn(FALSE, out, r1, 121)
    ELSE IF UnsupportedVersion(mem)
    THEN DecodeReturn(FALSE, out, r2, 123)
    ELSE IF UnsupportedMessageType(mem)
    THEN DecodeReturn(FALSE, out, r3, 125)
    ELSE IF NameTooLong(mem)
    THEN DecodeReturn(FALSE, out, r4, 127)
    ELSE LET expected == tilted_readings_packet_size(RdU8(mem, OffNameLen),
                                                     RdU8(mem, OffItemCount))
         IN
    IF LengthMismatch(len, expected)
    THEN DecodeReturn(FALSE, out, r5, 131)
    ELSE DecodeReturn(TRUE, ViewInto(mem), r5, 138)

\* ===================================================================
\* The sensor's samplers. Each class is a record of its members and each
\* member function an operator from the record (and what the hardware
\* answers) to the record after the call and the value returned.
\* ===================================================================

\* NAN: a float whose denominator is 0.
NaN == [n |-> 0, d |-> 0]
isnan(x) == x.d = 0
isfinite(x) == x.d # 0

\* x < y, x > y and x = y on floats; every comparison with NaN is false.
FLess(x, y) == isfinite(x) /\ isfinite(y) /\ x.n * y.d < y.n * x.d
FGreater(x, y) == FLess(y, x)
FEqual(x, y) == isfinite(x) /\ isfinite(y) /\ x.n * y.d = y.n * x.d

\* ------------------------------------------------------- MpuSampler
kMaxSamples == 10

\* MpuSampler's members as the class initialises them.
MpuSamplerMembers ==
    [mpu_ |-> FALSE,            \* TRUE: points at an MPU6050 object
     targetSamples_ |-> 0,
     samplesTaken_ |-> 0,
     samples_ |-> [i \in 1..kMaxSamples |-> [n |-> 0, d |-> 1]],
     tempC_ |-> NaN,
     requireDataReady_ |-> TRUE,
     lastReadMs_ |-> 0,
     initialized_ |-> FALSE,
     overrun |-> FALSE]         \* history: samples_ was indexed beyond its end

\* A faulty variant: the requested count is taken as it is.
MpuSampler_resetUnclamped(m, sampleCount) ==
    [m EXCEPT !.targetSamples_ = sampleCount,
              !.samplesTaken_ = 0,
              !.tempC_ = NaN,
              !.samples_ = [i \in 1..kMaxSamples |-> [n |-> 0, d |-> 1]]]

\* MpuSampler::reset
MpuSampler_reset(m, sampleCount) ==
    [m EXCEPT !.targetSamples_ = IF sampleCount > kMaxSamples
                                 THEN kMaxSamples ELSE sampleCount,
              !.samplesTaken_ = 0,
              !.tempC_ = NaN,
              !.samples_ = [i \in 1..kMaxSamples |-> [n |-> 0, d |-> 1]]]

\* MpuSampler::MpuSampler
MpuSampler_new(sampleCount) == MpuSampler_reset(MpuSamplerMembers, sampleCount)

\* MpuSampler::begin
MpuSampler_begin(m) == [m EXCEPT !.mpu_ = TRUE, !.initialized_ = TRUE]

\* MpuSampler::samplesLeft, isComplete, pending, ready, tempC
MpuSampler_samplesLeft(m) ==
    IF m.targetSamples_ > m.samplesTaken_
    THEN m.targetSamples_ - m.samplesTaken_ ELSE 0
MpuSampler_isComplete(m) == m.samplesTaken_ >= m.targetSamples_
MpuSampler_pending(m) ==
    m.initialized_ /\ m.targetSamples_ > 0 /\ ~MpuSampler_isComplete(m)
\* A faulty variant: ready as soon as a window is asked for.
MpuSampler_readyAnyWindow(m) == m.initialized_ /\ m.targetSamples_ > 0
MpuSampler_ready(m) ==
    m.initialized_ /\ m.targetSamples_ > 0 /\ MpuSampler_isComplete(m)
MpuSampler_tempC(m) == m.tempC_

\* What the MPU6050 answers during one sample(): the data-ready bit, the
\* tilt its acceleration vector stands for, and the raw temperature word.
\* MpuSampler::calculateTiltDeg_: the angle between the vector and the z
\* axis. acos is taken from the reading's own record: `deg` is the angle of
\* (ax, ay, az) to one decimal.
calculateTiltDeg_(a) ==
    IF a.ax = 0 /\ a.ay = 0 /\ a.az = 0 THEN [n |-> 0, d |-> 1] ELSE a.deg

\* The MPU temperature: raw / 340 + 36.53.
MpuTemperature(raw) == [n |-> 100 * raw + 1242020, d |-> 34000]

\* A tilt reading the sampler keeps: above 0 and not exactly 90.
ValidTilt(tilt) ==
    FGreater(tilt, [n |-> 0, d |-> 1]) /\ ~FEqual(tilt, [n |-> 90, d |-> 1])

\* MpuSampler::sample
MpuSampler_sample(m, now, hw) ==
    IF ~m.initialized_ \/ MpuSampler_isComplete(m)
    THEN [ret |-> FALSE, m |-> m]
    ELSE IF ~m.mpu_ THEN [ret |-> FALSE, m |-> m]
    ELSE IF m.requireDataReady_ /\ ~hw.dataReady
    THEN [ret |-> FALSE, m |-> m]
    ELSE IF ~m.requireDataReady_ /\ now - m.lastReadMs_ < 8
    THEN [ret |-> FALSE, m |-> m]
    ELSE
    LET m0 == IF m.requireDataReady_ THEN m ELSE [m EXCEPT !.lastReadMs_ = now]
        tilt == calculateTiltDeg_(hw.accel)
    IN  IF ValidTilt(tilt)
        THEN LET index == m0.samplesTaken_      \* 0-based, as in the source
                 m1 == [m0 EXCEPT
                          !.samples_ = IF index < kMaxSamples
                                       THEN [@ EXCEPT ![index + 1] = tilt]
                                       ELSE @,
                          !.overrun = @ \/ index >= kMaxSamples,
                          !.samplesTaken_ = index + 1]
             IN  [ret |-> TRUE,
                  m |-> IF MpuSampler_isComplete(m1)
                        THEN [m1 EXCEPT !.tempC_ = MpuTemperature(hw.rawTemp)]
                        ELSE m1]
        ELSE [ret |-> FALSE, m |-> m0]

\* RunningMedian::getMedian over the values added: the middle of the sorted
\* values, or the mean of the two in the middle.
RECURSIVE InsertSorted(_, _)
InsertSorted(x, sorted) ==
    IF sorted = << >> THEN <<x>>
    ELSE IF FLess(x, Head(sorted)) THEN <<x>> \o sorted
    ELSE <<Head(sorted)>> \o InsertSorted(x, Tail(sorted))

RECURSIVE SortFloats(_)
SortFloats(values) ==
    IF values = << >> THEN << >>
    ELSE InsertSorted(Head(values), SortFloats(Tail(values)))

FMean(a, b) == [n |-> a.n * b.d + b.n * a.d, d |-> 2 * a.d * b.d]

getMedian(values) ==
    LET sorted == SortFloats(values)
        count == Len(values)
    IN  IF count = 0 THEN NaN
        ELSE IF count % 2 = 1 THEN sorted[(count + 1) \div 2]
        ELSE FMean(sorted[count \div 2], sorted[count \div 2 + 1])

\* MpuSampler::filteredTiltDeg
MpuSampler_filteredTiltDeg(m) ==
    IF m.samplesTaken_ = 0 THEN NaN
    ELSE IF m.samplesTaken_ < m.targetSamples_ THEN m.samples_[m.samplesTaken_]
    ELSE getMedian(SubSeq(m.samples_, 1, m.targetSamples_))

\* MpuSampler::pending and ready of the RunningMedian build of the class:
\* getSize() is the window asked for, getCount() the samples added.
MpuSampler_pendingRunningMedian(m) ==
    m.initialized_ /\ m.targetSamples_ > 0
    /\ ~(m.samplesTaken_ >= m.targetSamples_)
MpuSampler_readyRunningMedian(m) == ~MpuSampler_pendingRunningMedian(m)

\* --------------------------------------------------- Ds18b20Sampler
\* Ds18b20Sampler's members as the class initialises them.
Ds18b20SamplerMembers ==
    [state_ |-> "Idle", startMs_ |-> 0, conversionMs_ |-> 750, tempC_ |-> NaN]

\* Ds18b20Sampler::begin; res is what getResolution() returns.
Ds18b20Sampler_begin(s, res) ==
    LET clamped == IF res < 9 THEN 9 ELSE IF res > 12 THEN 12 ELSE res
    IN  [s EXCEPT !.conversionMs_ = CASE clamped = 9 -> 94
                                      [] clamped = 10 -> 188
                                      [] clamped = 11 -> 375
                                      [] OTHER -> 750,
                  !.state_ = "Idle",
                  !.tempC_ = NaN]

\* Ds18b20Sampler::start
Ds18b20Sampler_start(s, now) ==
    [s EXCEPT !.tempC_ = NaN, !.startMs_ = now, !.state_ = "Converting"]

\* A faulty variant: the reading is stored whatever it is.
Ds18b20Sampler_sampleUnchecked(s, now, t) ==
    IF s.state_ # "Converting" \/ now - s.startMs_ < s.conversionMs_
    THEN [ret |-> FALSE, s |-> s]
    ELSE [ret |-> TRUE, s |-> [s EXCEPT !.tempC_ = t, !.state_ = "Ready"]]

\* Ds18b20Sampler::sample; t is what getTempCByIndex(0) returns.
Ds18b20Sampler_sample(s, now, t) ==
    IF s.state_ # "Converting" THEN [ret |-> FALSE, s |-> s]
    ELSE IF now - s.startMs_ < s.conversionMs_ THEN [ret |-> FALSE, s |-> s]
    ELSE [ret |-> TRUE,
          s |-> [s EXCEPT
                   !.tempC_ = IF FGreater(t, [n |-> -100, d |-> 1])
                                 /\ FLess(t, [n |-> 150, d |-> 1])
                              THEN t ELSE @,
                   !.state_ = "Ready"]]

\* Ds18b20Sampler::pending, ready, temperatureC
Ds18b20Sampler_pending(s) == s.state_ = "Converting"
Ds18b20Sampler_ready(s) == s.state_ = "Ready"
Ds18b20Sampler_temperatureC(s) == s.tempC_

\* ---------------------------------------------------- Bmp280Sampler
\* Bmp280Sampler's members as the class initialises them.
Bmp280SamplerMembers ==
    [sensor_ |-> FALSE,         \* TRUE: points at an Adafruit_BMP280 object
     state_ |-> "Idle",
     tempC_ |-> NaN]

\* Bmp280Sampler::begin; found is what Adafruit_BMP280::begin(addr_) returns.
Bmp280Sampler_begin(s, found) ==
    [s EXCEPT !.sensor_ = found, !.state_ = "Idle"]

\* Bmp280Sampler::start
Bmp280Sampler_start(s) == [s EXCEPT !.state_ = "Reading"]

\* Bmp280Sampler::sample; t is what readTemperature() returns.
Bmp280Sampler_sample(s, t) ==
    IF s.state_ # "Reading" \/ ~s.sensor_ THEN [ret |-> FALSE, s |-> s]
    ELSE [ret |-> TRUE,
          s |-> [s EXCEPT !.tempC_ = IF isnan(t) THEN NaN ELSE t,
                          !.state_ = "Ready"]]

\* Bmp280Sampler::sleep
Bmp280Sampler_sleep(s) == [s EXCEPT !.sensor_ = FALSE]

\* A faulty variant: the sampler never reports a read as outstanding.
Bmp280Sampler_pendingNever(s) == FALSE

\* Bmp280Sampler::pending, ready, temperatureC
Bmp280Sampler_pending(s) == s.state_ = "Reading"
Bmp280Sampler_ready(s) == s.state_ = "Ready"
Bmp280Sampler_temperatureC(s) == s.tempC_

\* ------------------------------------------------------ tilted_median
\* One inner loop of the bubble sort: adjacent elements from j up to the
\* limit are swapped when the left one is greater (0-based j, as in the
\* source).
RECURSIVE BubbleInner(_, _, _)
BubbleInner(temp, j, limit) ==
    IF j >= limit THEN temp
    ELSE BubbleInner(IF FGreater(temp[j + 1], temp[j + 2])
                     THEN [temp EXCEPT ![j + 1] = temp[j + 2],
                                       ![j + 2] = temp[j + 1]]
                     ELSE temp,
                     j + 1, limit)

\* The outer loop: N - 1 passes, each one element shorter.
RECURSIVE BubbleOuter(_, _)
BubbleOuter(temp, i) ==
    IF i >= Len(temp) - 1 THEN temp
    ELSE BubbleOuter(BubbleInner(temp, 0, Len(temp) - i - 1), i + 1)

\* A faulty variant: one pass of the sort only.
tilted_medianOnePass(values) ==
    LET N == Len(values)
        temp == BubbleInner(values, 0, N - 1)
    IN  [ret |-> IF N % 2 = 1 THEN temp[N \div 2 + 1]
                 ELSE FMean(temp[N \div 2], temp[N \div 2 + 1]),
         values |-> values]

\* tilted_median<N>: the result, and the caller's array after the call
\* (the function sorts a copy; `values` is a const reference).
tilted_median(values) ==
    LET N == Len(values)
        temp == BubbleOuter(values, 0)
    IN  [ret |-> IF N % 2 = 1 THEN temp[N \div 2 + 1]
                 ELSE FMean(temp[N \div 2], temp[N \div 2 + 1]),
         values |-> values]

NoMedianCall == [args |-> << >>, ret |-> NaN, after |-> << >>]

\* ===================================================================
\* SpecCodec: one encoder call, the frame on the air, one decoder call
\* ===================================================================

\* Inputs of the encoder call.
ChipIds == {168496141, 2147483647}
Intervals == {980, 65535}
\* The caller's name array, char name[TILTED_MAX_NAME_LEN + 1]:
\* "tilt-0a0b0c0d-fermenter-1".
NameArray ==
    <<116, 105, 108, 116, 45, 48, 97, 48, 98, 48, 99, 48, 100,
      45, 102, 101, 114, 109, 101, 110, 116, 101, 114, 45, 49>>
NameLens == {0, 13, TILTED_MAX_NAME_LEN, TILTED_MAX_NAME_LEN + 1}
ItemPool ==
    {[type |-> TypeTilt, scale10 |-> -1, reserved |-> 0, value |-> 234],
     [type |-> TypeBatteryMv, scale10 |-> 0, reserved |-> 0, value |-> 3301],
     [type |-> 9, scale10 |-> -3, reserved |-> -2, value |-> -2147483647]}
ItemArrays == [1..MaxItems -> ItemPool]
\* The destination buffer, sized as the sensor sizes its stack buffer.
BufSize == HeaderSize + TILTED_MAX_NAME_LEN + ItemSize * MaxItems
BufCaps == {HeaderSize - 1, HeaderSize + TILTED_MAX_NAME_LEN, BufSize}
\* What a destination of n bytes holds before the call.
FreshBuffer(n) == [i \in 1..n |-> 165]
\* Values the never-assigned header bytes may hold.
IndetBytes == {[version |-> v, msgType |-> t] : v \in {1, 2}, t \in {0, 1}}
\* Pointer arguments the caller may leave null.
NullableArgs == {"none", "outBuf", "name", "items"}
\* What the out parameter of the decoder holds before the call: the view of
\* an earlier packet.
StaleView == [header |-> 0, name |-> HeaderSize, items |-> HeaderSize + 3]

VARIABLES
    op,         \* the operation that produced the current state
    encArgs,    \* arguments of the encoder call
    outBuf,     \* memory of the encoder's destination buffer
    wrote,      \* value returned by the encoder
    rxData,     \* the frame handed to the receiver (pointer)
    rxLen,      \* and its length
    view,       \* TiltedReadingsView out parameter of the decoder
    decOk,      \* value returned by the decoder
    decReads,   \* offsets of rxData the decoder read
    decLine     \* source line of the decoder's return

VARIABLES
    havePending_,   \* EspNowReceiver::havePending_
    pendingJson_,   \* EspNowReceiver::pendingJson_
    lastSender_,    \* EspNowReceiver::lastSender_
    cbData,         \* incomingData of the latest receive callback
    cbLen,          \* len of the latest receive callback
    cbAccepted,     \* whether that callback staged a record
    cbReads,        \* offsets of incomingData that callback read
    cbView,         \* the local `view` of that callback after decoding
    recvCount,      \* receive callbacks so far
    brewfatherURL,  \* forwarding URL loaded by loadSettings
    loopPc,         \* position of the main loop
    jsonBody,       \* local of publishBrewfather
    posts,          \* bodies handed to http.POST, in order
    polynomial_,    \* EspNowReceiver::polynomial_
    wifiBegun,      \* WiFi.begin() was called and no WiFi.disconnect() since
    sawPending,     \* what hasPending() returned in this iteration of loop()
    acceptedLog     \* history: the frames accepted since the slot was emptied

VARIABLES
    scaleArgs,      \* arguments of scaleAndRound in the latest call
    scaled,         \* value it returned
    madeItem,       \* item the latest call returned, if it made one
    medianCall      \* the latest tilted_median call: array, result, array after

VARIABLES
    millis,         \* the sensor's clock, ms since boot
    mpuSampler,     \* the sensor's MpuSampler
    ds18b20Sampler, \* the sensor's Ds18b20Sampler
    bmp280Sampler,  \* the sensor's Bmp280Sampler
    call            \* latest member function called on a sampler, and its result

VARIABLES
    nameCall,       \* latest tilted_build_name_from_type call and its result
    sendOut         \* what the latest sendSensorData did

VARIABLES
    firmware,       \* TILTED_ENABLE_DS18B20 / TILTED_ENABLE_BMP280 of the firmware
    rtcUserMemory,  \* the word at RTC_ADDRESS; deep sleep keeps it
    resetReason,    \* resetInfo->reason of the current boot
    attitude,       \* how the device floats during the current wake cycle
    pc,             \* where the sensor is: setup, probe, start, loop, asleep
    calibrationIterations,
    sleep_interval,
    voltage,
    currentState,
    bootTime,
    sent,
    calibrationSetupStart,
    deepSleepFor,   \* seconds given to ESP.deepSleepInstant; 0 while awake
    cycle,          \* history: wake cycles since calibration posture was seen
    stalled         \* history: in this wake cycle a sampler did not deliver
                    \* when polled, or 5 s passed with a due sample outstanding

codecVars ==
    <<op, encArgs, outBuf, wrote, rxData, rxLen, view, decOk, decReads,
      decLine>>

gwVars ==
    <<havePending_, pendingJson_, lastSender_, cbData, cbLen, cbAccepted,
      cbReads, cbView, recvCount, brewfatherURL, loopPc, jsonBody, posts,
      polynomial_, wifiBegun, sawPending, acceptedLog>>

scaleVars == <<scaleArgs, scaled, madeItem, medianCall>>

samplerVars ==
    <<millis, mpuSampler, ds18b20Sampler, bmp280Sampler, call>>

sendVars == <<nameCall, sendOut>>

progVars ==
    <<firmware, rtcUserMemory, resetReason, attitude, pc, calibrationIterations,
      sleep_interval, voltage, currentState, bootTime, sent,
      calibrationSetupStart, deepSleepFor, cycle>>

mainVars == <<sendVars, progVars, stalled>>

sensorVars == <<samplerVars, mainVars>>

vars == <<codecVars, gwVars, scaleVars, sensorVars>>

NoArgs ==
    [chipId |-> 0, intervalSeconds |-> 0, nameLen |-> 0, items |-> << >>,
     itemCount |-> 0, outBufMax |-> 0, nullArg |-> "none"]

NoScaleArgs == [value |-> [n |-> 0, d |-> 1], scale10 |-> 0]

NoItem ==
    [ctor |-> "none", intArg |-> 0,
     item |-> [type |-> 0, scale10 |-> 0, reserved |-> 0, value |-> 0]]

CodecIdle ==
    /\ op = "init"
    /\ scaleArgs = NoScaleArgs
    /\ scaled = 0
    /\ madeItem = NoItem
    /\ medianCall = NoMedianCall
    /\ encArgs = NoArgs
    /\ outBuf = FreshBuffer(BufSize)
    /\ wrote = 0
    /\ rxData = NullPtr
    /\ rxLen = 0
    /\ view = StaleView
    /\ decOk = FALSE
    /\ decReads = {}
    /\ decLine = 0

\* The gateway before any packet: nothing staged, the loop at its top.
GatewayIdle ==
    /\ havePending_ = FALSE
    /\ pendingJson_ = << >>
    /\ lastSender_ = <<0, 0, 0, 0, 0, 0>>
    /\ cbData = NullPtr
    /\ cbLen = 0
    /\ cbAccepted = FALSE
    /\ cbReads = {}
    /\ cbView = NullView
    /\ recvCount = 0
    /\ loopPc = "loop"
    /\ jsonBody = << >>
    /\ posts = << >>
    /\ wifiBegun = FALSE
    /\ sawPending = FALSE
    /\ acceptedLog = << >>

MAX_SAMPLES == 5

NoCall == [fn |-> "none", ret |-> FALSE]

\* The samplers as main.cpp's static objects are constructed.
SamplersConstructed ==
    /\ millis = 0
    /\ mpuSampler = MpuSampler_new(MAX_SAMPLES)
    /\ ds18b20Sampler = Ds18b20SamplerMembers
    /\ bmp280Sampler = Bmp280SamplerMembers
    /\ call = NoCall

NoNameCall ==
    [out |-> [null |-> TRUE, mem |-> << >>], outMax |-> 0,
     typePrefix |-> [null |-> TRUE, mem |-> << >>], id |-> 0, ret |-> 0,
     mem |-> << >>]

NoSend ==
    [via |-> "none",
     r |-> [outcome |-> "none", nameLen |-> 0, itemCount |-> 0, capacity |-> 0,
            bufSize |-> 0, pktLen |-> 0, wrote |-> 0, packet |-> << >>,
            sends |-> 0, slept |-> FALSE]]

NORMAL_INTERVAL == 980

\* main.cpp's static variables as the program image initialises them.
StaticsLoaded ==
    /\ calibrationIterations = 0
    /\ sleep_interval = NORMAL_INTERVAL
    /\ voltage = 0
    /\ currentState = "STATE_INIT"
    /\ bootTime = 0
    /\ sent = 0
    /\ calibrationSetupStart = 0

\* The sensor before it is powered.
SensorIdle ==
    /\ SamplersConstructed
    /\ nameCall = NoNameCall
    /\ sendOut = NoSend
    /\ StaticsLoaded
    /\ firmware = [ds18b20 |-> FALSE, bmp280 |-> FALSE]
    /\ rtcUserMemory = 0
    /\ resetReason = "none"
    /\ attitude = [ax |-> 0, ay |-> 0, az |-> 0, deg |-> [n |-> 0, d |-> 1]]
    /\ pc = "off"
    /\ deepSleepFor = 0
    /\ cycle = 0
    /\ stalled = FALSE

InitCodec ==
    /\ CodecIdle
    /\ GatewayIdle
    /\ brewfatherURL = ""
    /\ polynomial_ = ""
    /\ SensorIdle

\* A caller builds a packet: tilted_encode_readings_packet(buf, cap, ...).
EncodeCall ==
    /\ op = "init"
    /\ \E chipId \in ChipIds, interval \in Intervals, nameLen \in NameLens,
          items \in ItemArrays, itemCount \in 0..MaxItems, cap \in BufCaps,
          nullArg \in NullableArgs, indet \in IndetBytes :
          LET r == tilted_encode_readings_packet(
                       IF nullArg = "outBuf" THEN NullPtr ELSE Ptr(outBuf),
                       cap, chipId, interval,
                       IF nullArg = "name" THEN NullPtr ELSE Ptr(NameArray),
                       nameLen,
                       IF nullArg = "items" THEN NullPtr ELSE Ptr(items),
                       itemCount, indet)
          IN  /\ encArgs' = [chipId |-> chipId, intervalSeconds |-> interval,
                             nameLen |-> nameLen, items |-> items,
                             itemCount |-> itemCount, outBufMax |-> cap,
                             nullArg |-> nullArg]
              /\ outBuf' = IF nullArg = "outBuf" THEN outBuf ELSE r.mem
              /\ wrote' = r.ret
    /\ op' = "encode"
    /\ UNCHANGED <<rxData, rxLen, view, decOk, decReads, decLine, gwVars, scaleVars, sensorVars>>

\* esp_now_send(NULL, buf, pktLen): the written bytes reach the receiver as
\* they are.
LinkDeliver ==
    /\ op = "encode"
    /\ wrote > 0
    /\ rxData' = Ptr(SubSeq(outBuf, 1, wrote))
    /\ rxLen' = wrote
    /\ op' = "air"
    /\ UNCHANGED <<encArgs, outBuf, wrote, view, decOk, decReads, decLine, gwVars, scaleVars, sensorVars>>

\* Lengths at which the link may cut a frame of n bytes.
TruncPoints(n) == {0, HeaderSize - 1, HeaderSize, n - ItemSize, n - 1} \cap 0..(n - 1)

\* The receiver is handed only the first k bytes of the frame.
LinkTruncate ==
    /\ op = "encode"
    /\ wrote > 0
    /\ \E k \in TruncPoints(wrote) :
          /\ rxData' = Ptr(SubSeq(outBuf, 1, k))
          /\ rxLen' = k
    /\ op' = "air"
    /\ UNCHANGED <<encArgs, outBuf, wrote, view, decOk, decReads, decLine, gwVars, scaleVars, sensorVars>>

\* The receiver is handed the frame with a trailing byte.
LinkPad ==
    /\ op = "encode"
    /\ wrote > 0
    /\ rxData' = Ptr(Append(SubSeq(outBuf, 1, wrote), 0))
    /\ rxLen' = wrote + 1
    /\ op' = "air"
    /\ UNCHANGED <<encArgs, outBuf, wrote, view, decOk, decReads, decLine, gwVars, scaleVars, sensorVars>>

\* Foreign or garbled traffic: a frame that differs from the sender's in one
\* header byte.
AlteredOffsets ==
    {OffMagic, OffMagic + 1, OffVersion, OffMsgType, OffNameLen, OffItemCount}
AlteredValues == {1, 255}

LinkAlter ==
    /\ op = "encode"
    /\ wrote > 0
    /\ \E off \in AlteredOffsets, v \in AlteredValues :
          rxData' = Ptr(MemCpy(SubSeq(outBuf, 1, wrote), off, <<v>>))
    /\ rxLen' = wrote
    /\ op' = "air"
    /\ UNCHANGED <<encArgs, outBuf, wrote, view, decOk, decReads, decLine, gwVars, scaleVars, sensorVars>>

\* The decoder is called without a buffer.
LinkNull ==
    /\ op = "encode"
    /\ wrote > 0
    /\ rxData' = NullPtr
    /\ rxLen' = wrote
    /\ op' = "air"
    /\ UNCHANGED <<encArgs, outBuf, wrote, view, decOk, decReads, decLine, gwVars, scaleVars, sensorVars>>

\* tilted_decode_readings_view(rxData, rxLen, view)
DecodeCall ==
    /\ op = "air"
    /\ LET r == tilted_decode_readings_view(rxData, rxLen, view)
       IN  /\ view' = r.out
           /\ decOk' = r.ok
           /\ decReads' = r.reads
           /\ decLine' = r.line
    /\ op' = "decode"
    /\ UNCHANGED <<encArgs, outBuf, wrote, rxData, rxLen, gwVars, scaleVars, sensorVars>>

NextCodec ==
    \/ EncodeCall
    \/ LinkDeliver
    \/ LinkTruncate
    \/ LinkPad
    \/ LinkAlter
    \/ LinkNull
    \/ DecodeCall

SpecCodec == InitCodec /\ [][NextCodec]_vars

\* ===================================================================
\* Spec: the gateway. EspNowReceiver::onRecv runs in the radio driver's
\* callback and stages a record; loop() drains it and forwards it.
\* ===================================================================

\* A float that is an integer divided by a power of ten, kept as the pair.
Float(n, d) == [n |-> n, d |-> d]

\* The C string found in a char array: the bytes before the first NUL.
RECURSIVE CStr(_)
CStr(bytes) ==
    IF bytes = << >> \/ Head(bytes) = 0 THEN << >>
    ELSE <<Head(bytes)>> \o CStr(Tail(bytes))

\* A faulty variant: a member that exists keeps its value.
JsonSetOnce(doc, key, value) ==
    IF \E k \in 1..Len(doc) : doc[k][1] = key
    THEN doc
    ELSE Append(doc, <<key, value>>)

\* doc[key] = value on a JsonDocument, kept as its members in insertion
\* order: an existing member is overwritten in place, a new one is appended.
JsonSet(doc, key, value) ==
    IF \E k \in 1..Len(doc) : doc[k][1] = key
    THEN [k \in 1..Len(doc) |->
             IF doc[k][1] = key THEN <<key, value>> ELSE doc[k]]
    ELSE Append(doc, <<key, value>>)

\* serializeJson(doc, out) appended to a String that holds `before`: the
\* members of the document, in order, as the text of the object.
serializeJson(doc, before) == before \o doc

\* (it.scale10 == -1) ? ((float)it.value / 10.0f) : (float)it.value
ScaledValue(it) ==
    IF it.scale10 = -1 THEN Float(it.value, 10) ELSE Float(it.value, 1)

\* A faulty variant: the battery reading taken as already in volts when the
\* item carries a scale.
BatteryVoltsScaled(it) ==
    IF it.scale10 = 0 THEN Float(it.value, 1000) ELSE Float(it.value, 1)

\* int32_t mv = it.value; ... (float)mv / 1000.0f
BatteryVolts(it) == Float(it.value, 1000)

\* One iteration of the extraction loop, on the item at offset off. acc holds
\* the locals doc, haveTilt, haveTemp, tilt, temp, and the offsets read.
ExtractItem(mem, off, acc) ==
    LET it == ItemAt(mem, off)
        rType == {off}
        rScale == {off + 1}
        rValue == (off + 4)..(off + 7)
    IN  CASE it.type = TypeTilt ->
                [acc EXCEPT !.tilt = ScaledValue(it),
                            !.doc = JsonSet(@, "angle", ScaledValue(it)),
                            !.haveTilt = TRUE,
                            !.reads = @ \cup rType \cup rScale \cup rValue]
          [] it.type = TypeTemp ->
                [acc EXCEPT !.temp = ScaledValue(it),
                            !.doc = JsonSet(JsonSet(@, "temp", ScaledValue(it)),
                                            "temp_unit", "C"),
                            !.haveTemp = TRUE,
                            !.reads = @ \cup rType \cup rScale \cup rValue]
          [] it.type = TypeAuxTemp ->
                [acc EXCEPT !.doc = JsonSet(JsonSet(@, "aux_temp",
                                                    ScaledValue(it)),
                                            "aux_temp_unit", "C"),
                            !.reads = @ \cup rType \cup rScale \cup rValue]
          [] it.type = TypeBatteryMv ->
                [acc EXCEPT !.doc = JsonSet(@, "battery", BatteryVolts(it)),
                            !.reads = @ \cup rType \cup rValue]
          [] it.type = TypeIntervalS ->
                [acc EXCEPT !.doc = JsonSet(@, "interval", it.value),
                            !.reads = @ \cup rType \cup rValue]
          [] it.type = TypeRssiDbm ->
                [acc EXCEPT !.doc = JsonSet(@, "rssi", it.value),
                            !.reads = @ \cup rType \cup rValue]
          [] OTHER ->
                [acc EXCEPT !.reads = @ \cup rType]

\* A faulty variant: the `break` of the default case leaves the loop.
RECURSIVE ExtractLoopStopAtUnknown(_, _, _, _, _)
ExtractLoopStopAtUnknown(mem, items, i, itemCount, acc) ==
    IF i >= itemCount THEN acc
    ELSE IF RdU8(mem, items + ItemSize * i) \notin TypeTilt..TypeRssiDbm
         THEN ExtractItem(mem, items + ItemSize * i, acc)
         ELSE ExtractLoopStopAtUnknown(mem, items, i + 1, itemCount,
                  ExtractItem(mem, items + ItemSize * i, acc))

\* A faulty variant: the loop stops one item early.
RECURSIVE ExtractLoopSkipLast(_, _, _, _, _)
ExtractLoopSkipLast(mem, items, i, itemCount, acc) ==
    IF i + 1 >= itemCount THEN acc
    ELSE ExtractLoopSkipLast(mem, items, i + 1, itemCount,
                             ExtractItem(mem, items + ItemSize * i, acc))

\* for (uint8_t i = 0; i < view.header->itemCount; i++), from iteration i.
RECURSIVE ExtractLoop(_, _, _, _, _)
ExtractLoop(mem, items, i, itemCount, acc) ==
    IF i >= itemCount THEN acc
    ELSE ExtractLoop(mem, items, i + 1, itemCount,
                     ExtractItem(mem, items + ItemSize * i, acc))

\* A faulty variant: the document is serialized behind the text already
\* staged.
StageJsonWithoutReset(doc, json) == serializeJson(doc, json)

\* pendingJson_ = String(); serializeJson(doc, pendingJson_);
StageJson(doc, json) ==
    LET cleared == << >>
    IN  serializeJson(doc, cleared)

\* EspNowReceiver::onRecv on the receiver state (pending flag, staged JSON):
\* the state after the callback, whether a record was staged, and the
\* offsets of incomingData that were read.
onRecv(incomingData, len, pending, json) ==
    LET dec == IF incomingData.null \/ ~(len > 0)
               THEN DecodeReturn(FALSE, NullView, {}, 95)
               ELSE tilted_decode_readings_view(incomingData, len % 65536,
                                                NullView)
    IN
    IF ~dec.ok
    THEN [havePending |-> pending, pendingJson |-> json,
          accepted |-> FALSE, reads |-> dec.reads, view |-> dec.out]
    ELSE LET mem == incomingData.mem
             v == dec.out
             nameLen == RdU8(mem, v.header + OffNameLen)
             nlen == IF nameLen > TILTED_MAX_NAME_LEN
                     THEN TILTED_MAX_NAME_LEN ELSE nameLen
             name == [k \in 1..nlen |-> Peek(mem, v.name + k - 1)] \o <<0>>
             acc0 == [doc |-> JsonSet(<< >>, "name", CStr(name)),
                      haveTilt |-> FALSE, haveTemp |-> FALSE,
                      tilt |-> Float(0, 1), temp |-> Float(0, 1),
                      reads |-> dec.reads
                               \cup {v.header + OffNameLen}
                               \cup {v.name + k - 1 : k \in 1..nlen}
                               \cup {v.header + OffItemCount}]
             acc == ExtractLoop(mem, v.items, 0,
                                RdU8(mem, v.header + OffItemCount), acc0)
         IN  [havePending |-> TRUE,
              pendingJson |-> StageJson(acc.doc, json),
              accepted |-> TRUE,
              reads |-> acc.reads
                        \cup (v.header + OffChipId)..(v.header + OffChipId + 3),
              view |-> v]

\* ---------------------------------------------------- frames on the air
\* Item lists the sensor builds in sendSensorData.
SensorItemLists ==
    {<< >>,
     <<[type |-> TypeTilt, scale10 |-> -1, reserved |-> 0, value |-> 234],
       [type |-> TypeTemp, scale10 |-> -1, reserved |-> 0, value |-> 198],
       [type |-> TypeBatteryMv, scale10 |-> 0, reserved |-> 0, value |-> 3301],
       [type |-> TypeIntervalS, scale10 |-> 0, reserved |-> 0, value |-> 980]>>,
     <<[type |-> TypeTilt, scale10 |-> -1, reserved |-> 0, value |-> 671],
       [type |-> TypeTemp, scale10 |-> -1, reserved |-> 0, value |-> -15],
       [type |-> TypeAuxTemp, scale10 |-> -1, reserved |-> 0, value |-> 215],
       [type |-> TypeAuxTemp, scale10 |-> -1, reserved |-> 0, value |-> 221],
       [type |-> TypeBatteryMv, scale10 |-> 0, reserved |-> 0, value |-> 4012],
       [type |-> TypeIntervalS, scale10 |-> 0, reserved |-> 0, value |-> 30]>>}

\* Item lists of a newer or foreign sender: items of unknown types among the
\* known ones, known items that carry another scale than this sensor uses,
\* and items of one type more than once.
ForeignItemLists ==
    {<<[type |-> 9, scale10 |-> 0, reserved |-> 0, value |-> 77],
       [type |-> TypeRssiDbm, scale10 |-> 0, reserved |-> 0, value |-> -67],
       [type |-> TypeTilt, scale10 |-> 0, reserved |-> 0, value |-> 23]>>,
     <<[type |-> 0, scale10 |-> -1, reserved |-> 0, value |-> 5],
       [type |-> TypeTilt, scale10 |-> -1, reserved |-> 0, value |-> 234],
       [type |-> 7, scale10 |-> 0, reserved |-> 0, value |-> 6],
       [type |-> TypeTemp, scale10 |-> -1, reserved |-> 0, value |-> 198],
       [type |-> 255, scale10 |-> 1, reserved |-> 0, value |-> -7]>>,
     <<[type |-> TypeTilt, scale10 |-> -2, reserved |-> 0, value |-> 2340],
       [type |-> TypeTemp, scale10 |-> -3, reserved |-> 0, value |-> 19800],
       [type |-> TypeAuxTemp, scale10 |-> 1, reserved |-> 0, value |-> 2]>>,
     <<[type |-> TypeBatteryMv, scale10 |-> -3, reserved |-> 0, value |-> 3301],
       [type |-> TypeIntervalS, scale10 |-> 1, reserved |-> 0, value |-> 98],
       [type |-> TypeRssiDbm, scale10 |-> -1, reserved |-> 0, value |-> -670]>>,
     <<[type |-> TypeIntervalS, scale10 |-> 0, reserved |-> 0, value |-> 30],
       [type |-> TypeTilt, scale10 |-> -1, reserved |-> 0, value |-> 671],
       [type |-> TypeTilt, scale10 |-> -1, reserved |-> 0, value |-> 234],
       [type |-> TypeIntervalS, scale10 |-> 0, reserved |-> 0, value |-> 980]>>}

GwItemLists == SensorItemLists \cup ForeignItemLists

\* The sensor's packet for an item list: name "tilt-0a0b0c0d", built by
\* the encoder into a buffer with room for it.
SensorFrame(items, indet) ==
    LET size == HeaderSize + TILTED_MAX_NAME_LEN + ItemSize * Len(items)
        r == tilted_encode_readings_packet(
                 Ptr(FreshBuffer(size)), size, 168496141, 980,
                 Ptr(NameArray), 13, Ptr(items), Len(items), indet)
    IN  SubSeq(r.mem, 1, r.ret)

\* What the radio driver may hand to the callback: the sensors' frames
\* (with the never-assigned header bytes holding the expected values, or
\* others), such frames cut short, and calls without data.
GwIndetBytes == {[version |-> 1, msgType |-> 1], [version |-> 2, msgType |-> 0]}

AirFrames ==
    LET aired == {SensorFrame(l, d) : l \in SensorItemLists, d \in GwIndetBytes}
                \cup {SensorFrame(l, [version |-> 1, msgType |-> 1]) :
                          l \in ForeignItemLists}
        good == {SensorFrame(l, [version |-> 1, msgType |-> 1]) :
                    l \in SensorItemLists}
    IN  {[data |-> Ptr(f), len |-> Len(f)] : f \in aired}
        \cup {[data |-> Ptr(SubSeq(f, 1, Len(f) - 1)), len |-> Len(f) - 1] :
                f \in good}
        \cup {[data |-> Ptr(SensorFrame(<< >>, [version |-> 1, msgType |-> 1])),
               len |-> l] : l \in {0, -1}}
        \cup {[data |-> NullPtr, len |-> HeaderSize]}

SenderMacs == {<<92, 207, 127, 10, 11, 12>>, <<92, 207, 127, 10, 11, 13>>}
ForwardUrls == {"", "http://log.brewfather.net/stream"}

\* Calibration polynomials a user may have saved: none, or a line in tilt.
Polynomials == {"", "0.9+0.002*tilt"}

\* EspNowReceiver::setPolynomial(polynomial): the receiver keeps the string.
setPolynomial(polynomial) == polynomial

\* setup() with WiFi credentials saved: loadSettings() reads the settings and
\* hands the polynomial to the receiver, ensureEspNow() starts the receiver.
GatewayInit ==
    /\ GatewayIdle
    /\ brewfatherURL \in ForwardUrls
    /\ \E polynomial \in Polynomials : polynomial_ = setPolynomial(polynomial)

Init == CodecIdle /\ GatewayInit /\ SensorIdle

\* EspNowReceiver::recvCb -> onRecv, at any point of the main loop.
RecvCb ==
    /\ recvCount < MaxRecv
    /\ \E senderMac \in SenderMacs, f \in AirFrames :
          LET r == onRecv(f.data, f.len, havePending_, pendingJson_)
          IN  /\ lastSender_' = senderMac
              /\ cbData' = f.data
              /\ cbLen' = f.len
              /\ cbAccepted' = r.accepted
              /\ cbReads' = r.reads
              /\ cbView' = r.view
              /\ havePending_' = r.havePending
              /\ pendingJson_' = r.pendingJson
              /\ acceptedLog' = IF r.accepted
                                THEN Append(acceptedLog, f)
                                ELSE acceptedLog
    /\ recvCount' = recvCount + 1
    /\ UNCHANGED <<brewfatherURL, loopPc, jsonBody, posts, polynomial_,
                   wifiBegun, sawPending, codecVars, scaleVars, sensorVars>>

\* EspNowReceiver::hasPending
hasPending == havePending_

\* EspNowReceiver::clearPending: the state after.
clearPending(pending, json) == [havePending |-> FALSE, pendingJson |-> json]

\* A faulty variant: the flag is left set by a take.
takePendingJsonKeepingFlag(pending, json) ==
    IF ~pending
    THEN [out |-> << >>, havePending |-> pending, pendingJson |-> json]
    ELSE [out |-> json, havePending |-> pending, pendingJson |-> << >>]

\* EspNowReceiver::takePendingJson: the returned String and the state after.
takePendingJson(pending, json) ==
    IF ~pending
    THEN [out |-> << >>, havePending |-> pending, pendingJson |-> json]
    ELSE [out |-> json, havePending |-> FALSE, pendingJson |-> << >>]

\* integrationEnabled(brewfatherURL)
integrationEnabled(integration) == integration # ""

\* A faulty variant: the loop goes on to publish whatever hasPending() said.
LoopPublishUnconditionally ==
    /\ loopPc = "loop"
    /\ sawPending' = hasPending
    /\ loopPc' = "wifiConnect"
    /\ UNCHANGED <<havePending_, pendingJson_, lastSender_, cbData, cbLen,
                   cbAccepted, cbReads, cbView, recvCount, brewfatherURL, jsonBody,
                   posts, polynomial_, wifiBegun, acceptedLog, codecVars, scaleVars, sensorVars>>

\* loop(): if (espNow.hasPending()) { ... }
LoopCheckPending ==
    /\ loopPc = "loop"
    /\ sawPending' = hasPending
    /\ loopPc' = IF hasPending THEN "wifiConnect" ELSE "loop"
    /\ UNCHANGED <<havePending_, pendingJson_, lastSender_, cbData, cbLen,
                   cbAccepted, cbReads, cbView, recvCount, brewfatherURL, jsonBody,
                   posts, polynomial_, wifiBegun, acceptedLog, codecVars, scaleVars, sensorVars>>

\* wifiConnect(); if (integrationEnabled(brewfatherURL)) ...
LoopWifiConnect ==
    /\ loopPc = "wifiConnect"
    /\ wifiBegun' = TRUE
    /\ loopPc' = IF integrationEnabled(brewfatherURL)
                 THEN "publish" ELSE "ensureEspNow"
    /\ UNCHANGED <<havePending_, pendingJson_, lastSender_, cbData, cbLen,
                   cbAccepted, cbReads, cbView, recvCount, brewfatherURL, jsonBody,
                   posts, polynomial_, sawPending, acceptedLog, codecVars, scaleVars, sensorVars>>

\* publishBrewfather(): String jsonBody = espNow.takePendingJson();
PublishTake ==
    /\ loopPc = "publish"
    /\ LET r == takePendingJson(havePending_, pendingJson_)
       IN  /\ jsonBody' = r.out
           /\ havePending_' = r.havePending
           /\ pendingJson_' = r.pendingJson
    /\ acceptedLog' = << >>
    /\ loopPc' = "post"
    /\ UNCHANGED <<lastSender_, cbData, cbLen, cbAccepted, cbReads, cbView,
                   recvCount, brewfatherURL, posts, polynomial_, wifiBegun,
                   sawPending, codecVars, scaleVars, sensorVars>>

\* publishBrewfather(): http.POST(jsonBody);
PublishPost ==
    /\ loopPc = "post"
    /\ posts' = Append(posts, jsonBody)
    /\ loopPc' = "ensureEspNow"
    /\ UNCHANGED <<havePending_, pendingJson_, lastSender_, cbData, cbLen,
                   cbAccepted, cbReads, cbView, recvCount, brewfatherURL, jsonBody,
                   polynomial_, wifiBegun, sawPending, acceptedLog, codecVars, scaleVars, sensorVars>>

\* ensureEspNow(): espNow.begin() disconnects and registers the callback
\* again; and the loop starts over.
LoopEnsureEspNow ==
    /\ loopPc = "ensureEspNow"
    /\ wifiBegun' = FALSE
    /\ loopPc' = "loop"
    /\ UNCHANGED <<havePending_, pendingJson_, lastSender_, cbData, cbLen,
                   cbAccepted, cbReads, cbView, recvCount, brewfatherURL, jsonBody,
                   posts, polynomial_, sawPending, acceptedLog, codecVars, scaleVars, sensorVars>>

Next ==
    \/ RecvCb
    \/ LoopCheckPending
    \/ LoopWifiConnect
    \/ PublishTake
    \/ PublishPost
    \/ LoopEnsureEspNow

Spec == Init /\ [][Next]_vars

\* SpecDrain: the gateway whose loop task keeps running. loop() is called
\* again and again by the Arduino loop task, so every step of the loop
\* that can be taken is taken in the end; the driver delivers frames as it
\* likes.
SpecDrain ==
    /\ Init
    /\ [][Next]_vars
    /\ WF_vars(LoopCheckPending)
    /\ WF_vars(LoopWifiConnect)
    /\ WF_vars(PublishTake)
    /\ WF_vars(PublishPost)
    /\ WF_vars(LoopEnsureEspNow)

\* ===================================================================
\* SpecReceiver: the public interface of EspNowReceiver under any caller.
\* The radio driver delivers frames; the owner calls takePendingJson() and
\* clearPending() in any order. op names the last call, jsonBody holds the
\* String the last take returned.
\* ===================================================================

\* The driver calls recvCb -> onRecv.
ReceiverRecv ==
    /\ recvCount < MaxRecv
    /\ \E senderMac \in SenderMacs, f \in AirFrames :
          LET r == onRecv(f.data, f.len, havePending_, pendingJson_)
          IN  /\ lastSender_' = senderMac
              /\ cbData' = f.data
              /\ cbLen' = f.len
              /\ cbAccepted' = r.accepted
              /\ cbReads' = r.reads
              /\ cbView' = r.view
              /\ havePending_' = r.havePending
              /\ pendingJson_' = r.pendingJson
              /\ acceptedLog' = IF r.accepted
                                THEN Append(acceptedLog, f)
                                ELSE acceptedLog
    /\ recvCount' = recvCount + 1
    /\ op' = "onRecv"
    /\ UNCHANGED <<brewfatherURL, loopPc, jsonBody, posts, polynomial_,
                   wifiBegun, sawPending, encArgs, outBuf, wrote, rxData,
                   rxLen, view, decOk, decReads, decLine, scaleVars, sensorVars>>

\* String s = espNow.takePendingJson();
ReceiverTake ==
    /\ LET r == takePendingJson(havePending_, pendingJson_)
       IN  /\ jsonBody' = r.out
           /\ havePending_' = r.havePending
           /\ pendingJson_' = r.pendingJson
    /\ acceptedLog' = << >>
    /\ op' = "take"
    /\ UNCHANGED <<lastSender_, cbData, cbLen, cbAccepted, cbReads, cbView,
                   recvCount, brewfatherURL, loopPc, posts, polynomial_,
                   wifiBegun, sawPending, encArgs, outBuf, wrote, rxData,
                   rxLen, view, decOk, decReads, decLine, scaleVars, sensorVars>>

\* espNow.clearPending();
ReceiverClear ==
    /\ LET r == clearPending(havePending_, pendingJson_)
       IN  /\ havePending_' = r.havePending
           /\ pendingJson_' = r.pendingJson
    /\ acceptedLog' = << >>
    /\ op' = "clear"
    /\ UNCHANGED <<lastSender_, cbData, cbLen, cbAccepted, cbReads, cbView,
                   recvCount, brewfatherURL, loopPc, jsonBody, posts,
                   polynomial_, wifiBegun, sawPending, encArgs, outBuf, wrote,
                   rxData, rxLen, view, decOk, decReads, decLine, scaleVars, sensorVars>>

NextReceiver ==
    \/ ReceiverRecv
    \/ ReceiverTake
    \/ ReceiverClear

SpecReceiver == Init /\ [][NextReceiver]_vars

\* ===================================================================
\* SpecInterleaved: the gateway with takePendingJson taken statement by
\* statement. The driver's callback runs in the WiFi task and may run
\* between any two statements of the loop task; loopPc follows the loop
\* through takePendingJson, jsonBody is the String being returned, and
\* acceptedLog keeps every accepted frame.
\* ===================================================================

\* takePendingJson: if (!havePending_) return String();
TakeTest ==
    /\ loopPc = "publish"
    /\ IF ~havePending_
       THEN jsonBody' = << >> /\ loopPc' = "post"
       ELSE jsonBody' = jsonBody /\ loopPc' = "takeFlag"
    /\ UNCHANGED <<havePending_, pendingJson_, lastSender_, cbData, cbLen,
                   cbAccepted, cbReads, cbView, recvCount, brewfatherURL,
                   posts, polynomial_, wifiBegun, sawPending, acceptedLog,
                   codecVars, scaleVars, sensorVars>>

\* A faulty variant: the flag is left set.
TakeLeaveFlag ==
    /\ loopPc = "takeFlag"
    /\ loopPc' = "takeCopy"
    /\ UNCHANGED <<havePending_, pendingJson_, lastSender_, cbData, cbLen,
                   cbAccepted, cbReads, cbView, recvCount, brewfatherURL,
                   jsonBody, posts, polynomial_, wifiBegun, sawPending,
                   acceptedLog, codecVars, scaleVars, sensorVars>>

\* takePendingJson: havePending_ = false;
TakeClearFlag ==
    /\ loopPc = "takeFlag"
    /\ havePending_' = FALSE
    /\ loopPc' = "takeCopy"
    /\ UNCHANGED <<pendingJson_, lastSender_, cbData, cbLen, cbAccepted,
                   cbReads, cbView, recvCount, brewfatherURL, jsonBody, posts,
                   polynomial_, wifiBegun, sawPending, acceptedLog, codecVars,
                   scaleVars, sensorVars>>

\* takePendingJson: String out = pendingJson_;
TakeCopy ==
    /\ loopPc = "takeCopy"
    /\ jsonBody' = pendingJson_
    /\ loopPc' = "takeReset"
    /\ UNCHANGED <<havePending_, pendingJson_, lastSender_, cbData, cbLen,
                   cbAccepted, cbReads, cbView, recvCount, brewfatherURL,
                   posts, polynomial_, wifiBegun, sawPending, acceptedLog,
                   codecVars, scaleVars, sensorVars>>

\* takePendingJson: pendingJson_ = String(); return out;
TakeReset ==
    /\ loopPc = "takeReset"
    /\ pendingJson_' = << >>
    /\ loopPc' = "post"
    /\ UNCHANGED <<havePending_, lastSender_, cbData, cbLen, cbAccepted,
                   cbReads, cbView, recvCount, brewfatherURL, jsonBody, posts,
                   polynomial_, wifiBegun, sawPending, acceptedLog, codecVars,
                   scaleVars, sensorVars>>

NextInterleaved ==
    \/ RecvCb
    \/ LoopCheckPending
    \/ LoopWifiConnect
    \/ TakeTest
    \/ TakeClearFlag
    \/ TakeCopy
    \/ TakeReset
    \/ PublishPost
    \/ LoopEnsureEspNow

SpecInterleaved == Init /\ [][NextInterleaved]_vars

\* ===================================================================
\* SpecScale: TiltedValueHelper::scaleAndRound on any value and exponent.
\* A float is the pair of an integer and a power of ten; the arithmetic is
\* exact.
\* ===================================================================

\* 10^e, e >= 0
RECURSIVE Pow10(_)
Pow10(e) == IF e = 0 THEN 1 ELSE 10 * Pow10(e - 1)

\* value * k and value / k, k a power of ten
FMul(x, k) == Float(x.n * k, x.d)
FDiv(x, k) == Float(x.n, x.d * k)

\* A faulty variant: round half to even.
lroundfHalfEven(x) ==
    LET q == x.n \div x.d
        twice == 2 * (x.n - q * x.d)
    IN  IF twice < x.d THEN q
        ELSE IF twice > x.d THEN q + 1
        ELSE IF q % 2 = 0 THEN q ELSE q + 1

\* lroundf: the nearest integer, halves away from zero.
lroundf(x) ==
    IF x.n >= 0 THEN (2 * x.n + x.d) \div (2 * x.d)
    ELSE -((2 * (-x.n) + x.d) \div (2 * x.d))

\* A faulty variant: the exponents 2 and 3 get a power of ten of their
\* own.
scaleAndRoundAnyPower(value, scale10) ==
    IF scale10 \in -3..0 THEN lroundf(FMul(value, Pow10(-scale10)))
    ELSE IF scale10 \in 1..3 THEN lroundf(FDiv(value, Pow10(scale10)))
    ELSE lroundf(value)

\* TiltedValueHelper::scaleAndRound
scaleAndRound(value, scale10) ==
    CASE scale10 = -3 -> lroundf(FMul(value, 1000))
      [] scale10 = -2 -> lroundf(FMul(value, 100))
      [] scale10 = -1 -> lroundf(FMul(value, 10))
      [] scale10 = 0 -> lroundf(value)
      [] scale10 = 1 -> lroundf(FDiv(value, 10))
      [] OTHER -> lroundf(value)

\* Values handed to scaleAndRound, in ten-thousandths: halves at every
\* supported scale and of both signs, values next to a half, and readings
\* such as 23.47 and 3.3.
ScaleValues ==
    {Float(n, 10000) : n \in
        {0, 5, -5, 15, -25, 50, -50, 150, -250, 500, -1500, 4999, -4999,
         5000, -5000, 5001, -5001, 15000, 25000, -25000, 33000, -33000,
         50000, -50000, 150000, 250000, -250000, 234500, 234700, -234700}}

\* Exponents an int8_t scale10 may hold: the five of the switch and others.
ScaleExponents == {-128, -4, -3, -2, -1, 0, 1, 2, 3, 127}

\* A caller rounds a reading: scaleAndRound(value, scale10).
ScaleAndRoundCall ==
    /\ \E value \in ScaleValues, scale10 \in ScaleExponents :
          /\ scaleArgs' = [value |-> value, scale10 |-> scale10]
          /\ scaled' = scaleAndRound(value, scale10)
    /\ madeItem' = NoItem
    /\ op' = "scaleAndRound"
    /\ UNCHANGED <<encArgs, outBuf, wrote, rxData, rxLen, view, decOk,
                   decReads, decLine, gwVars, sensorVars,
                   medianCall>>

\* A faulty variant: the item keeps the scale of a zero-initialised item.
makeItemUnscaled(type, value, scale10) ==
    [type |-> type, scale10 |-> 0, reserved |-> 0, value |-> value]

\* TiltedValueHelper::makeItemI32
makeItemI32(type, value, scale10) ==
    [type |-> type, scale10 |-> scale10, reserved |-> 0, value |-> value]

\* TiltedValueHelper::tiltDeg, tempC, auxTempC: the reading in tenths.
tiltDeg(tiltDegrees) ==
    makeItemI32(TypeTilt, scaleAndRound(tiltDegrees, -1), -1)
tempC(tempCelsius) ==
    makeItemI32(TypeTemp, scaleAndRound(tempCelsius, -1), -1)
auxTempC(tempCelsius) ==
    makeItemI32(TypeAuxTemp, scaleAndRound(tempCelsius, -1), -1)

\* TiltedValueHelper::batteryMv, intervalS, rssiDbm: the integer as it is.
batteryMv(mv) == makeItemI32(TypeBatteryMv, mv, 0)
intervalS(seconds) == makeItemI32(TypeIntervalS, seconds, 0)
rssiDbm(dbm) == makeItemI32(TypeRssiDbm, dbm, 0)

\* int32_t arguments of the integer constructors: what a uint16_t voltage
\* or interval and an int8_t RSSI can be, and the ends of int32_t.
MilliVolts == {0, 3301, 4012, 65535, -2147483647, 2147483647}
IntervalSeconds == {0, 30, 980, 65535}
Dbms == {-128, -67, 0, 127}

\* tiltDeg(v), tempC(v), auxTempC(v): the reading in tenths.
OneDecimalCall ==
    /\ \E value \in ScaleValues, ctor \in {"tiltDeg", "tempC", "auxTempC"} :
          /\ scaleArgs' = [value |-> value, scale10 |-> -1]
          /\ scaled' = scaleAndRound(value, -1)
          /\ madeItem' =
                [ctor |-> ctor, intArg |-> 0,
                 item |-> CASE ctor = "tiltDeg" -> tiltDeg(value)
                            [] ctor = "tempC" -> tempC(value)
                            [] OTHER -> auxTempC(value)]
    /\ op' = "oneDecimal"
    /\ UNCHANGED <<encArgs, outBuf, wrote, rxData, rxLen, view, decOk,
                   decReads, decLine, gwVars, sensorVars,
                   medianCall>>

\* batteryMv(mv), intervalS(seconds), rssiDbm(dbm)
IntegerItemCall ==
    /\ \/ \E mv \in MilliVolts :
             madeItem' = [ctor |-> "batteryMv", intArg |-> mv,
                          item |-> batteryMv(mv)]
       \/ \E seconds \in IntervalSeconds :
             madeItem' = [ctor |-> "intervalS", intArg |-> seconds,
                          item |-> intervalS(seconds)]
       \/ \E dbm \in Dbms :
             madeItem' = [ctor |-> "rssiDbm", intArg |-> dbm,
                          item |-> rssiDbm(dbm)]
    /\ scaleArgs' = NoScaleArgs
    /\ scaled' = 0
    /\ op' = "integerItem"
    /\ UNCHANGED <<encArgs, outBuf, wrote, rxData, rxLen, view, decOk,
                   decReads, decLine, gwVars, sensorVars,
                   medianCall>>

NextScale ==
    \/ ScaleAndRoundCall
    \/ OneDecimalCall
    \/ IntegerItemCall

SpecScale == InitCodec /\ [][NextScale]_vars

\* ===================================================================
\* SpecMedian: tilted_median over every array of up to MaxMedianN values
\* ===================================================================
MaxMedianN == 5

\* Tilt samples: the zero of an unwritten static array, 45 and 175 degrees.
MedianValues == {[n |-> 0, d |-> 1], [n |-> 45, d |-> 1], [n |-> 1750, d |-> 10]}

MedianCall ==
    /\ \E N \in 1..MaxMedianN :
          \E values \in [1..N -> MedianValues] :
             LET r == tilted_median(values)
             IN  medianCall' = [args |-> values, ret |-> r.ret,
                                after |-> r.values]
    /\ op' = "tilted_median"
    /\ UNCHANGED <<scaleArgs, scaled, madeItem, encArgs, outBuf, wrote,
                   rxData, rxLen, view, decOk, decReads, decLine, gwVars,
                   sensorVars>>

NextMedian == MedianCall

SpecMedian == InitCodec /\ [][NextMedian]_vars

\* ===================================================================
\* SpecMpu, SpecDs18b20, SpecBmp280: each sampler class under any caller.
\* call names the member function called last and what it returned.
\* ===================================================================

InitSamplers ==
    /\ CodecIdle
    /\ GatewayIdle
    /\ brewfatherURL = ""
    /\ polynomial_ = ""
    /\ SensorIdle

\* Attitudes of the device: no data, upright (0), lying flat (90), and
\* floating at 22.5, 45 and 175 degrees.
AccelZero == [ax |-> 0, ay |-> 0, az |-> 0, deg |-> [n |-> 0, d |-> 1]]
AccelUpright == [ax |-> 0, ay |-> 0, az |-> 16384, deg |-> [n |-> 0, d |-> 1]]
AccelFlat == [ax |-> 16384, ay |-> 0, az |-> 0, deg |-> [n |-> 90, d |-> 1]]
Accel22 ==
    [ax |-> 0, ay |-> 6270, az |-> 15137, deg |-> [n |-> 225, d |-> 10]]
Accel45 ==
    [ax |-> 11585, ay |-> 0, az |-> 11585, deg |-> [n |-> 45, d |-> 1]]
Accel175 ==
    [ax |-> 1428, ay |-> 0, az |-> -16321, deg |-> [n |-> 1750, d |-> 10]]

\* Raw temperature words of the MPU: 20.0 C and 36.53 C.
RawTemps == {-5620, 0}

\* What the MPU6050 answers to one sample().
MpuAnswers ==
    {[dataReady |-> r, accel |-> a, rawTemp |-> t] :
        r \in BOOLEAN, a \in {AccelZero, AccelUpright, AccelFlat, Accel45,
                              Accel175},
        t \in RawTemps}

\* Sample counts a caller may ask for (uint8_t).
SampleCounts == {0, 1, 3, kMaxSamples, kMaxSamples + 1, 255}

MpuResetCall ==
    /\ \E sampleCount \in SampleCounts :
          mpuSampler' = MpuSampler_reset(mpuSampler, sampleCount)
    /\ call' = [fn |-> "reset", ret |-> FALSE]
    /\ UNCHANGED <<millis, ds18b20Sampler, bmp280Sampler, mainVars, codecVars,
                   gwVars, scaleVars>>

MpuBeginCall ==
    /\ mpuSampler' = MpuSampler_begin(mpuSampler)
    /\ call' = [fn |-> "begin", ret |-> FALSE]
    /\ UNCHANGED <<millis, ds18b20Sampler, bmp280Sampler, mainVars, codecVars,
                   gwVars, scaleVars>>

MpuSampleCall ==
    /\ \E hw \in MpuAnswers :
          LET r == MpuSampler_sample(mpuSampler, millis, hw)
          IN  /\ mpuSampler' = r.m
              /\ call' = [fn |-> "sample", ret |-> r.ret]
    /\ UNCHANGED <<millis, ds18b20Sampler, bmp280Sampler, mainVars, codecVars,
                   gwVars, scaleVars>>

NextMpu ==
    \/ MpuResetCall
    \/ MpuBeginCall
    \/ MpuSampleCall

SpecMpu == InitSamplers /\ [][NextMpu]_vars

\* Instants at which the caller looks at the clock, in ms: around each of
\* the four conversion times.
Instants == {0, 1, 93, 94, 187, 188, 374, 375, 749, 750, 751}

\* What getResolution() may return: 0 without a device, 9..12, and more.
Resolutions == {0, 9, 10, 11, 12, 13}

\* What getTempCByIndex(0) may return: readings, the power-on value 85,
\* DEVICE_DISCONNECTED_C = -127, the ends of the accepted range, and NaN.
DsReadings ==
    {[n |-> 2050, d |-> 100], [n |-> -1225, d |-> 100], [n |-> 85, d |-> 1],
     [n |-> -127, d |-> 1], [n |-> -100, d |-> 1], [n |-> 150, d |-> 1],
     [n |-> -999375, d |-> 10000], [n |-> 1499375, d |-> 10000], NaN}

\* Time passes.
ClockAdvance ==
    /\ \E t \in Instants : t > millis /\ millis' = t
    /\ UNCHANGED <<mpuSampler, ds18b20Sampler, bmp280Sampler, call, mainVars,
                   codecVars, gwVars, scaleVars>>

DsBeginCall ==
    /\ \E res \in Resolutions :
          ds18b20Sampler' = Ds18b20Sampler_begin(ds18b20Sampler, res)
    /\ call' = [fn |-> "begin", ret |-> FALSE]
    /\ UNCHANGED <<millis, mpuSampler, bmp280Sampler, mainVars, codecVars,
                   gwVars, scaleVars>>

DsStartCall ==
    /\ ds18b20Sampler' = Ds18b20Sampler_start(ds18b20Sampler, millis)
    /\ call' = [fn |-> "start", ret |-> FALSE]
    /\ UNCHANGED <<millis, mpuSampler, bmp280Sampler, mainVars, codecVars,
                   gwVars, scaleVars>>

DsSampleCall ==
    /\ \E t \in DsReadings :
          LET r == Ds18b20Sampler_sample(ds18b20Sampler, millis, t)
          IN  /\ ds18b20Sampler' = r.s
              /\ call' = [fn |-> "sample", ret |-> r.ret, t |-> t]
    /\ UNCHANGED <<millis, mpuSampler, bmp280Sampler, mainVars, codecVars,
                   gwVars, scaleVars>>

NextDs18b20 ==
    \/ ClockAdvance
    \/ DsBeginCall
    \/ DsStartCall
    \/ DsSampleCall

SpecDs18b20 == InitSamplers /\ [][NextDs18b20]_vars

\* What readTemperature() may return.
BmpReadings ==
    {[n |-> 2150, d |-> 100], [n |-> 2210, d |-> 100], [n |-> -40, d |-> 1],
     [n |-> 85, d |-> 1], NaN}

\* begin(Wire): the device answers at addr_ or it does not.
BmpBeginCall ==
    /\ \E found \in BOOLEAN :
          bmp280Sampler' = Bmp280Sampler_begin(bmp280Sampler, found)
    /\ call' = [fn |-> "begin", ret |-> FALSE]
    /\ UNCHANGED <<millis, mpuSampler, ds18b20Sampler, mainVars, codecVars,
                   gwVars, scaleVars>>

BmpStartCall ==
    /\ call.fn # "none"
    /\ bmp280Sampler' = Bmp280Sampler_start(bmp280Sampler)
    /\ call' = [fn |-> "start", ret |-> FALSE]
    /\ UNCHANGED <<millis, mpuSampler, ds18b20Sampler, mainVars, codecVars,
                   gwVars, scaleVars>>

BmpSampleCall ==
    /\ call.fn # "none"
    /\ \E t \in BmpReadings :
          LET r == Bmp280Sampler_sample(bmp280Sampler, t)
          IN  /\ bmp280Sampler' = r.s
              /\ call' = [fn |-> "sample", ret |-> r.ret, t |-> t]
    /\ UNCHANGED <<millis, mpuSampler, ds18b20Sampler, mainVars, codecVars,
                   gwVars, scaleVars>>

BmpSleepCall ==
    /\ call.fn # "none"
    /\ bmp280Sampler' = Bmp280Sampler_sleep(bmp280Sampler)
    /\ call' = [fn |-> "sleep", ret |-> FALSE]
    /\ UNCHANGED <<millis, mpuSampler, ds18b20Sampler, mainVars, codecVars,
                   gwVars, scaleVars>>

NextBmp280 ==
    \/ BmpBeginCall
    \/ BmpStartCall
    \/ BmpSampleCall
    \/ BmpSleepCall

\* The caller keeps calling sample(): loop() does so in every iteration
\* in which the sampler is pending.
SpecBmp280 == InitSamplers /\ [][NextBmp280]_vars /\ WF_vars(BmpSampleCall)

\* ===================================================================
\* SpecSend: the sensor builds its packet. tilted_build_name_from_type on
\* any buffer size, prefix and chip id, and sendSensorData on any readings.
\* ===================================================================

\* One hexadecimal digit, lower case, as its character.
HexDigit(v) == IF v < 10 THEN 48 + v ELSE 87 + v

\* 16^e, e >= 0
RECURSIVE Pow16(_)
Pow16(e) == IF e = 0 THEN 1 ELSE 16 * Pow16(e - 1)

\* "%08x" of a chip id
Hex8(id) == [i \in 1..8 |-> HexDigit((id \div Pow16(8 - i)) % 16)]

\* snprintf(out, outMax, "%s-%08x", typePrefix, id): the length of the whole
\* text is returned; as much of it as fits before a NUL is written.
snprintfName(mem, outMax, typePrefix, id) ==
    LET text == typePrefix \o <<45>> \o Hex8(id)
        kept == IF Len(text) < outMax THEN Len(text) ELSE outMax - 1
    IN  [n |-> Len(text),
         mem |-> MemCpy(mem, 0, SubSeq(text, 1, kept) \o <<0>>)]

\* A faulty variant: the length of the whole text is returned.
tilted_build_name_untruncated(out, outMax, typePrefix, id) ==
    IF out.null \/ outMax = 0 \/ typePrefix.null THEN [ret |-> 0, mem |-> out.mem]
    ELSE LET r == snprintfName(out.mem, outMax, typePrefix.mem, id)
         IN  [ret |-> r.n % 256, mem |-> r.mem]

\* tilted_build_name_from_type; id is what tilted_get_chip_id32() returns.
tilted_build_name_from_type(out, outMax, typePrefix, id) ==
    IF out.null \/ outMax = 0 \/ typePrefix.null THEN [ret |-> 0, mem |-> out.mem]
    ELSE LET r == snprintfName(out.mem, outMax, typePrefix.mem, id)
         IN  IF r.n <= 0 THEN [ret |-> 0, mem |-> r.mem]
             ELSE [ret |-> (IF r.n >= outMax THEN outMax - 1 ELSE r.n) % 256,
                   mem |-> r.mem]

\* A faulty variant: room for the four base items only.
TILTED_ITEM_CAPACITY_base(ds18b20, bmp280) == 4

\* TILTED_ITEM_CAPACITY of the build: 4 base items and one per aux sensor.
TILTED_ITEM_CAPACITY(ds18b20, bmp280) ==
    IF ds18b20 THEN (IF bmp280 THEN 6 ELSE 5) ELSE (IF bmp280 THEN 5 ELSE 4)

\* "tilt"
TiltPrefix == <<116, 105, 108, 116>>

\* sendSensorData up to the sizing call: the items and the name.
SendBuild(build, mpu, ds, bmp, vbat, interval, chipId) ==
    LET filteredValue == MpuSampler_filteredTiltDeg(mpu)
        base == <<tiltDeg(filteredValue), tempC(MpuSampler_tempC(mpu))>>
        aux1 == IF build.ds18b20
                   /\ isfinite(Ds18b20Sampler_temperatureC(ds))
                THEN <<auxTempC(Ds18b20Sampler_temperatureC(ds))>>
                ELSE << >>
        aux2 == IF build.bmp280
                   /\ isfinite(Bmp280Sampler_temperatureC(bmp))
                THEN <<auxTempC(Bmp280Sampler_temperatureC(bmp))>>
                ELSE << >>
        items == base \o aux1 \o aux2
                    \o <<batteryMv(vbat), intervalS(interval)>>
        nm == tilted_build_name_from_type(
                  Ptr(FreshBuffer(TILTED_MAX_NAME_LEN + 1)),
                  TILTED_MAX_NAME_LEN + 1, Ptr(TiltPrefix), chipId)
    IN  [items |-> items,
         itemCount |-> Len(items),
         capacity |-> TILTED_ITEM_CAPACITY(build.ds18b20, build.bmp280),
         name |-> nm.mem,
         nameLen |-> IF nm.ret > TILTED_MAX_NAME_LEN
                     THEN TILTED_MAX_NAME_LEN ELSE nm.ret]

\* A faulty variant: a packet is sent whatever the encoder returned.
sendSensorDataUncheckedEncode(b, pktLen, initOk, enc) ==
    LET bufSize == HeaderSize + TILTED_MAX_NAME_LEN + ItemSize * b.capacity
        outcome == IF pktLen = 0 THEN "sizing failed"
                   ELSE IF ~initOk THEN "init failed"
                   ELSE IF pktLen > bufSize THEN "too large"
                   ELSE "sent"
    IN  [outcome |-> outcome, nameLen |-> b.nameLen, itemCount |-> b.itemCount,
         capacity |-> b.capacity, bufSize |-> bufSize, pktLen |-> pktLen,
         wrote |-> enc.ret,
         packet |-> IF outcome = "sent" THEN SubSeq(enc.mem, 1, pktLen)
                    ELSE << >>,
         sends |-> IF outcome = "sent" THEN 1 ELSE 0,
         slept |-> outcome # "sent"]

\* sendSensorData from the sizing call on: pktLen is what
\* tilted_readings_packet_size returned, initOk whether esp_now_init()
\* succeeded within its timeout, enc what the encoder returned and left in
\* buf. `sends` counts the esp_now_send calls, `slept` says whether
\* actuallySleep() was called here.
sendSensorDataFrom(b, pktLen, initOk, enc) ==
    LET bufSize == HeaderSize + TILTED_MAX_NAME_LEN + ItemSize * b.capacity
        outcome == IF pktLen = 0 THEN "sizing failed"
                   ELSE IF ~initOk THEN "init failed"
                   ELSE IF pktLen > bufSize THEN "too large"
                   ELSE IF enc.ret # pktLen THEN "encode failed"
                   ELSE "sent"
    IN  [outcome |-> outcome, nameLen |-> b.nameLen, itemCount |-> b.itemCount,
         capacity |-> b.capacity, bufSize |-> bufSize, pktLen |-> pktLen,
         wrote |-> enc.ret,
         packet |-> IF outcome = "sent" THEN SubSeq(enc.mem, 1, pktLen)
                    ELSE << >>,
         sends |-> IF outcome = "sent" THEN 1 ELSE 0,
         slept |-> outcome # "sent"]

\* The encoder call of sendSensorData.
SendEncode(b, interval, chipId, indet) ==
    LET bufSize == HeaderSize + TILTED_MAX_NAME_LEN + ItemSize * b.capacity
    IN  tilted_encode_readings_packet(
            Ptr(FreshBuffer(bufSize)), bufSize, chipId, interval % 65536,
            Ptr(b.name), b.nameLen, Ptr(b.items), b.itemCount, indet)

\* sendSensorData
sendSensorData(build, mpu, ds, bmp, vbat, interval, chipId, initOk, indet) ==
    LET b == SendBuild(build, mpu, ds, bmp, vbat, interval, chipId)
    IN  sendSensorDataFrom(
            b, tilted_readings_packet_size(b.nameLen, b.itemCount), initOk,
            SendEncode(b, interval, chipId, indet))

\* Arguments of tilted_build_name_from_type: the prefix "tilt" of the
\* sensor, none, an empty one, the longest that fits in 25 bytes (15
\* characters), and longer ones; the buffer of 25 bytes of the sensor,
\* smaller ones, and none.
LongPrefix(n) == [i \in 1..n |-> 120]
NamePrefixes ==
    {NullPtr, Ptr(<< >>), Ptr(TiltPrefix), Ptr(LongPrefix(15)),
     Ptr(LongPrefix(16)), Ptr(LongPrefix(40)), Ptr(LongPrefix(250))}
NameBufSizes == {0, 1, 10, TILTED_MAX_NAME_LEN + 1}
NameChipIds == ChipIds \cup {0}

\* A sampler that took the readings it is fed.
RECURSIVE MpuFeed(_, _, _)
MpuFeed(m, accels, raw) ==
    IF accels = << >> THEN m
    ELSE MpuFeed(MpuSampler_sample(m, 0, [dataReady |-> TRUE,
                                          accel |-> Head(accels),
                                          rawTemp |-> raw]).m,
                 Tail(accels), raw)

\* Completed sample windows sendSensorData may find.
SentWindows ==
    {MpuFeed(MpuSampler_begin(MpuSampler_new(MAX_SAMPLES)), w, raw) :
        w \in {<<Accel45, Accel45, Accel45, Accel45, Accel45>>,
               <<Accel22, Accel175, Accel45, Accel22, Accel45>>},
        raw \in RawTemps}

\* Aux temperatures the other two samplers may hold.
SentDs == {[Ds18b20SamplerMembers EXCEPT !.state_ = "Ready", !.tempC_ = t] :
              t \in {NaN, [n |-> 215, d |-> 10]}}
SentBmp == {[Bmp280SamplerMembers EXCEPT !.state_ = "Ready", !.tempC_ = t] :
               t \in {NaN, [n |-> 221, d |-> 10]}}

\* The four builds: DS18B20 and BMP280 each compiled in or not.
Builds == [ds18b20 : BOOLEAN, bmp280 : BOOLEAN]

\* readVoltage() results in mV (0: never read) and the two intervals.
Voltages == {0, 3301}
SleepIntervals == {30, 980}

\* Each call is looked at on its own, from the state before any.
SendIdle == nameCall = NoNameCall /\ sendOut = NoSend

BuildNameCall ==
    /\ SendIdle
    /\ \E out \in {NullPtr, Ptr(FreshBuffer(TILTED_MAX_NAME_LEN + 1))},
          outMax \in NameBufSizes, typePrefix \in NamePrefixes,
          id \in NameChipIds :
          LET r == tilted_build_name_from_type(out, outMax, typePrefix, id)
          IN  nameCall' = [out |-> out, outMax |-> outMax,
                           typePrefix |-> typePrefix, id |-> id,
                           ret |-> r.ret, mem |-> r.mem]
    /\ UNCHANGED <<sendOut, progVars, stalled, samplerVars, codecVars, gwVars,
                   scaleVars>>

SendCall ==
    /\ SendIdle
    /\ \E build \in Builds, mpu \in SentWindows, ds \in SentDs, bmp \in SentBmp,
          vbat \in Voltages, interval \in SleepIntervals,
          chipId \in ChipIds, initOk \in BOOLEAN, indet \in GwIndetBytes :
          sendOut' = [via |-> "sendSensorData",
                      r |-> sendSensorData(build, mpu, ds, bmp, vbat,
                                           interval, chipId, initOk, indet)]
    /\ UNCHANGED <<nameCall, progVars, stalled, samplerVars, codecVars, gwVars,
                   scaleVars>>

\* sendSensorData with a sizing call or an encoder that fails: the sizing
\* returns 0 or a length beyond the buffer, the encoder returns 0 or a
\* shorter length. (The sizing function and the encoder of this repository
\* return neither for what sendSensorData passes them.)
SendFaultCall ==
    /\ SendIdle
    /\ \E build \in Builds, mpu \in SentWindows, chipId \in ChipIds,
          initOk \in BOOLEAN, sizing \in {"ok", "zero", "large"},
          encoding \in {"ok", "zero", "short"} :
          LET b == SendBuild(build, mpu, Ds18b20SamplerMembers,
                             Bmp280SamplerMembers, 3301, 980, chipId)
              size == tilted_readings_packet_size(b.nameLen, b.itemCount)
              enc == SendEncode(b, 980, chipId, [version |-> 1, msgType |-> 1])
              pktLen == CASE sizing = "ok" -> size
                          [] sizing = "zero" -> 0
                          [] sizing = "large" ->
                               HeaderSize + TILTED_MAX_NAME_LEN
                                   + ItemSize * b.capacity + 1
              ret == CASE encoding = "ok" -> enc.ret
                       [] encoding = "zero" -> 0
                       [] encoding = "short" -> enc.ret - ItemSize
          IN  /\ sizing # "ok" \/ encoding # "ok"
              /\ sendOut' = [via |-> "faults",
                             r |-> sendSensorDataFrom(
                                       b, pktLen, initOk,
                                       [ret |-> ret, mem |-> enc.mem])]
    /\ UNCHANGED <<nameCall, progVars, stalled, samplerVars, codecVars, gwVars,
                   scaleVars>>

NextSend ==
    \/ BuildNameCall
    \/ SendCall
    \/ SendFaultCall

SpecSend == InitSamplers /\ [][NextSend]_vars

\* ===================================================================
\* SpecSensor: the sensor's wake cycles, from power-on through deep sleep
\* ===================================================================
WAKE_TIMEOUT == 10000
CALIBRATION_INTERVAL == 30
CALIBRATION_ITERATIONS == 60
CALIBRATION_TILT_ANGLE_MIN == 170
CALIBRATION_TILT_ANGLE_MAX == 180
CALIBRATION_SETUP_TIME == 30000

\* Wake cycles followed after calibration posture was seen.
MaxCycles == 62

\* The clock is read in steps of TickMs while loop() runs.
TickMs == 5000

\* What the word at RTC_ADDRESS may hold at power-on: nothing has written it.
RtcGarbage == {0, 59, 2147483647}

\* How the device may float: in the liquid, or upside down for calibration.
Attitudes == {Accel45, Accel175}

\* What ESP.getVcc() averages to.
VccReadings == {2987, 3301}

\* getResolution() after setResolution(10).
SensorResolution == 10

\* The chip id of the device.
SensorChipId == 168496141

\* What the MPU6050 of the device answers in the current wake cycle.
CycleAnswers ==
    {[dataReady |-> r, accel |-> a, rawTemp |-> -5620] :
        r \in BOOLEAN, a \in {attitude, AccelZero}}

\* The state at power-on: the statics loaded, the RTC word as it happens to be.
InitSensor ==
    /\ CodecIdle
    /\ GatewayIdle
    /\ brewfatherURL = ""
    /\ polynomial_ = ""
    /\ SamplersConstructed
    /\ nameCall = NoNameCall
    /\ sendOut = NoSend
    /\ StaticsLoaded
    /\ firmware \in Builds
    /\ rtcUserMemory \in RtcGarbage
    /\ resetReason = "REASON_DEFAULT_RST"
    /\ attitude \in Attitudes
    /\ pc = "setup"
    /\ deepSleepFor = 0
    /\ cycle = 0
    /\ stalled = FALSE

\* isCalibrationMode
isCalibrationMode(iterations) == iterations # 0

\* A faulty variant: calibration goes on while the counter is at most 60.
continuesCalibrationInclusive(iterations) ==
    isCalibrationMode(iterations) /\ iterations <= CALIBRATION_ITERATIONS

\* setup's test for another calibration cycle after a deep-sleep wake.
continuesCalibration(iterations) ==
    isCalibrationMode(iterations) /\ iterations < CALIBRATION_ITERATIONS

\* setup's test for calibration posture.
calibrationPosture(tilt) ==
    /\ FGreater(tilt, [n |-> 0, d |-> 1])
    /\ FGreater(tilt, [n |-> CALIBRATION_TILT_ANGLE_MIN, d |-> 1])
    /\ FLess(tilt, [n |-> CALIBRATION_TILT_ANGLE_MAX, d |-> 1])

\* readVoltage takes three readings 5 ms apart.
ReadVoltageMs == 15

\* setup up to the mode selection: the samplers begin, the RTC word is
\* read; after a deep-sleep wake the mode is chosen at once, after any other
\* reset the posture is probed first.
SetupBegin ==
    /\ pc = "setup"
    /\ mpuSampler' = MpuSampler_begin(mpuSampler)
    /\ ds18b20Sampler' = IF firmware.ds18b20
                         THEN Ds18b20Sampler_begin(ds18b20Sampler,
                                                   SensorResolution)
                         ELSE ds18b20Sampler
    /\ \E found \in BOOLEAN :
          bmp280Sampler' = IF firmware.bmp280
                           THEN Bmp280Sampler_begin(bmp280Sampler, found)
                           ELSE bmp280Sampler
    /\ IF resetReason # "REASON_DEEP_SLEEP_AWAKE"
       THEN /\ calibrationIterations' = rtcUserMemory
            /\ calibrationSetupStart' = millis
            /\ pc' = "probe"
            /\ UNCHANGED <<millis, voltage, sleep_interval, rtcUserMemory>>
       ELSE /\ \E vcc \in VccReadings : voltage' = vcc
            /\ millis' = millis + ReadVoltageMs
            /\ pc' = "start"
            /\ IF continuesCalibration(rtcUserMemory)
               THEN \* calibrationMode(false)
                    /\ sleep_interval' = CALIBRATION_INTERVAL
                    /\ calibrationIterations' = rtcUserMemory + 1
                    /\ rtcUserMemory' = rtcUserMemory + 1
               ELSE \* normalMode
                    /\ calibrationIterations' = rtcUserMemory
                    /\ UNCHANGED <<sleep_interval, rtcUserMemory>>
            /\ UNCHANGED calibrationSetupStart
    /\ UNCHANGED <<stalled, firmware, resetReason, attitude, currentState, bootTime,
                   sent, deepSleepFor, cycle, call, sendVars, codecVars,
                   gwVars, scaleVars>>

\* One turn of setup's posture loop, or its end after CALIBRATION_SETUP_TIME.
CalibProbe ==
    /\ pc = "probe"
    /\ IF millis - calibrationSetupStart < CALIBRATION_SETUP_TIME
       THEN \E hw \in CycleAnswers :
              LET r == MpuSampler_sample(mpuSampler, millis, hw)
                  tilt == MpuSampler_filteredTiltDeg(r.m)
              IN  /\ mpuSampler' = r.m
                  /\ stalled' = (stalled \/ (MpuSampler_pending(mpuSampler)
                                              /\ ~r.ret))
                  /\ IF calibrationPosture(tilt)
                     THEN \* calibrationMode(true)
                          /\ \E vcc \in VccReadings : voltage' = vcc
                          /\ millis' = millis + ReadVoltageMs
                          /\ sleep_interval' = CALIBRATION_INTERVAL
                          /\ calibrationIterations' = 1
                          /\ rtcUserMemory' = 1
                          /\ cycle' = 1
                          /\ pc' = "start"
                     ELSE /\ millis' = millis + 2000
                          /\ UNCHANGED <<voltage, sleep_interval,
                                         calibrationIterations, rtcUserMemory,
                                         cycle, pc>>
       ELSE /\ pc' = "start"
            /\ UNCHANGED <<stalled, mpuSampler, millis, voltage, sleep_interval,
                           calibrationIterations, rtcUserMemory, cycle>>
    /\ UNCHANGED <<firmware, resetReason, attitude, currentState, bootTime,
                   sent, calibrationSetupStart, deepSleepFor, ds18b20Sampler,
                   bmp280Sampler, call, sendVars, codecVars, gwVars,
                   scaleVars>>

\* The end of setup: the sampling state, a fresh window, the aux samplers
\* started.
SetupStart ==
    /\ pc = "start"
    /\ currentState' = "STATE_SAMPLING"
    /\ mpuSampler' = MpuSampler_reset(mpuSampler, MAX_SAMPLES)
    /\ ds18b20Sampler' = IF firmware.ds18b20
                         THEN Ds18b20Sampler_start(ds18b20Sampler, millis)
                         ELSE ds18b20Sampler
    /\ bmp280Sampler' = IF firmware.bmp280
                        THEN Bmp280Sampler_start(bmp280Sampler)
                        ELSE bmp280Sampler
    /\ pc' = "loop"
    /\ UNCHANGED <<stalled, firmware, rtcUserMemory, resetReason, attitude,
                   calibrationIterations, sleep_interval, voltage, bootTime,
                   sent, calibrationSetupStart, deepSleepFor, cycle, millis,
                   call, sendVars, codecVars, gwVars, scaleVars>>

\* Readings of the aux sensors of the device.
CycleDsReadings == {[n |-> 2050, d |-> 100], [n |-> -127, d |-> 1]}
CycleBmpReadings == {[n |-> 2210, d |-> 100]}

\* The timeout test of STATE_SAMPLING.
wakeTimedOut(now, boot, iterations) ==
    now - boot > WAKE_TIMEOUT /\ ~isCalibrationMode(iterations)

\* loop in STATE_SAMPLING
LoopSampling ==
    /\ pc = "loop"
    /\ currentState = "STATE_SAMPLING"
    /\ IF sent # 0
       THEN /\ currentState' = "STATE_SLEEPING"
            /\ UNCHANGED <<stalled, mpuSampler, ds18b20Sampler,
                           bmp280Sampler>>
       ELSE IF wakeTimedOut(millis, bootTime, calibrationIterations)
       THEN /\ currentState' = "STATE_SLEEPING"
            /\ UNCHANGED <<stalled, mpuSampler, ds18b20Sampler,
                           bmp280Sampler>>
       ELSE \E hw \in CycleAnswers, dsT \in CycleDsReadings,
               bmpT \in CycleBmpReadings :
              LET mpu == IF MpuSampler_pending(mpuSampler)
                         THEN MpuSampler_sample(mpuSampler, millis, hw).m
                         ELSE mpuSampler
                  ds == IF firmware.ds18b20
                           /\ Ds18b20Sampler_pending(ds18b20Sampler)
                        THEN Ds18b20Sampler_sample(ds18b20Sampler, millis,
                                                   dsT).s
                        ELSE ds18b20Sampler
                  bmp == IF firmware.bmp280
                            /\ Bmp280Sampler_pending(bmp280Sampler)
                         THEN Bmp280Sampler_sample(bmp280Sampler, bmpT).s
                         ELSE bmp280Sampler
                  nonePending ==
                      /\ ~MpuSampler_pending(mpu)
                      /\ firmware.ds18b20 => ~Ds18b20Sampler_pending(ds)
                      /\ firmware.bmp280 => ~Bmp280Sampler_pending(bmp)
              IN  /\ mpuSampler' = mpu
                  /\ stalled' =
                        \/ stalled
                        \/ MpuSampler_pending(mpuSampler) /\ mpu = mpuSampler
                        \/ /\ firmware.bmp280
                           /\ Bmp280Sampler_pending(bmp280Sampler)
                           /\ Bmp280Sampler_pending(bmp)
                  /\ ds18b20Sampler' = ds
                  /\ bmp280Sampler' = bmp
                  /\ currentState' = IF nonePending THEN "STATE_PROCESSING"
                                     ELSE currentState
    /\ UNCHANGED <<firmware, rtcUserMemory, resetReason, attitude, pc,
                   calibrationIterations, sleep_interval, voltage, bootTime,
                   sent, calibrationSetupStart, deepSleepFor, cycle, millis,
                   call, sendVars, codecVars, gwVars, scaleVars>>

\* loop in STATE_PROCESSING
LoopProcessing ==
    /\ pc = "loop"
    /\ currentState = "STATE_PROCESSING"
    /\ currentState' = "STATE_TRANSMITTING"
    /\ UNCHANGED <<stalled, firmware, rtcUserMemory, resetReason, attitude, pc,
                   calibrationIterations, sleep_interval, voltage, bootTime,
                   sent, calibrationSetupStart, deepSleepFor, cycle,
                   samplerVars, sendVars, codecVars, gwVars, scaleVars>>

\* actuallySleep on the BMP280 sampler of the build.
SleepBmp(s) == IF firmware.bmp280 THEN Bmp280Sampler_sleep(s) ELSE s

\* loop in STATE_TRANSMITTING: sendSensorData, which sleeps by itself when
\* it does not send.
LoopTransmitting ==
    /\ pc = "loop"
    /\ currentState = "STATE_TRANSMITTING"
    /\ \E initOk \in BOOLEAN, indet \in GwIndetBytes :
          LET r == sendSensorData(firmware, mpuSampler, ds18b20Sampler,
                                  bmp280Sampler, voltage, sleep_interval,
                                  SensorChipId, initOk, indet)
          IN  /\ sendOut' = [via |-> "loop", r |-> r]
              /\ millis' = millis + 1
              /\ IF r.slept
                 THEN /\ pc' = "asleep"
                      /\ deepSleepFor' = sleep_interval
                      /\ bmp280Sampler' = SleepBmp(bmp280Sampler)
                      /\ UNCHANGED <<sent, currentState>>
                 ELSE /\ sent' = millis + 1
                      /\ currentState' = "STATE_SLEEPING"
                      /\ UNCHANGED <<pc, deepSleepFor, bmp280Sampler>>
    /\ UNCHANGED <<stalled, firmware, rtcUserMemory, resetReason, attitude,
                   calibrationIterations, sleep_interval, voltage, bootTime,
                   calibrationSetupStart, cycle, mpuSampler, ds18b20Sampler,
                   call, nameCall, codecVars, gwVars, scaleVars>>

\* loop in STATE_SLEEPING: actuallySleep
LoopSleeping ==
    /\ pc = "loop"
    /\ currentState = "STATE_SLEEPING"
    /\ bmp280Sampler' = SleepBmp(bmp280Sampler)
    /\ deepSleepFor' = sleep_interval
    /\ pc' = "asleep"
    /\ UNCHANGED <<stalled, firmware, rtcUserMemory, resetReason, attitude,
                   calibrationIterations, sleep_interval, voltage,
                   currentState, bootTime, sent, calibrationSetupStart, cycle,
                   millis, mpuSampler, ds18b20Sampler, call, sendVars,
                   codecVars, gwVars, scaleVars>>

\* Time passes while loop() runs; the clock is followed until the wake
\* timeout has passed and a conversion under way has had its time.
SensorTick ==
    /\ pc = "loop"
    /\ \/ millis - bootTime <= WAKE_TIMEOUT
       \/ /\ Ds18b20Sampler_pending(ds18b20Sampler)
          /\ millis - ds18b20Sampler.startMs_ < ds18b20Sampler.conversionMs_
    /\ millis' = millis + TickMs
    /\ stalled' =
          \/ stalled
          \/ MpuSampler_pending(mpuSampler)
          \/ firmware.bmp280 /\ Bmp280Sampler_pending(bmp280Sampler)
          \/ /\ firmware.ds18b20
             /\ Ds18b20Sampler_pending(ds18b20Sampler)
             /\ millis - ds18b20Sampler.startMs_
                    >= ds18b20Sampler.conversionMs_
    /\ UNCHANGED <<progVars, mpuSampler, ds18b20Sampler, bmp280Sampler, call,
                   sendVars, codecVars, gwVars, scaleVars>>

\* The deep sleep ends: the program starts again with its statics loaded;
\* the RTC word is what the last cycle left.
Wake ==
    /\ pc = "asleep"
    /\ cycle < MaxCycles
    /\ calibrationIterations' = 0
    /\ sleep_interval' = NORMAL_INTERVAL
    /\ voltage' = 0
    /\ currentState' = "STATE_INIT"
    /\ bootTime' = 0
    /\ sent' = 0
    /\ calibrationSetupStart' = 0
    /\ millis' = 0
    /\ mpuSampler' = MpuSampler_new(MAX_SAMPLES)
    /\ ds18b20Sampler' = Ds18b20SamplerMembers
    /\ bmp280Sampler' = Bmp280SamplerMembers
    /\ sendOut' = NoSend
    /\ resetReason' = "REASON_DEEP_SLEEP_AWAKE"
    /\ \E a \in Attitudes : attitude' = a
    /\ pc' = "setup"
    /\ deepSleepFor' = 0
    /\ cycle' = IF cycle >= 1 THEN cycle + 1 ELSE 0
    /\ stalled' = FALSE
    /\ UNCHANGED <<firmware, rtcUserMemory, call, nameCall, codecVars, gwVars,
                   scaleVars>>

NextSensor ==
    \/ SetupBegin
    \/ CalibProbe
    \/ SetupStart
    \/ LoopSampling
    \/ LoopProcessing
    \/ LoopTransmitting
    \/ LoopSleeping
    \/ SensorTick
    \/ Wake

SpecSensor == InitSensor /\ [][NextSensor]_vars

\* ===================================================================
\* Properties
\* ===================================================================

\* The frame the encoder wrote: the first `wrote` bytes of the destination.
WrittenBytes == SubSeq(outBuf, 1, wrote)

\* The decoder was applied to exactly the bytes the encoder wrote.
DecodedWritten ==
    /\ op = "decode"
    /\ wrote > 0
    /\ ~rxData.null
    /\ rxLen = wrote
    /\ rxData.mem = WrittenBytes

\* The decoded view shows the encoder's inputs, field for field.
ViewShowsInputs ==
    LET mem == rxData.mem IN
    /\ RdU32(mem, view.header + OffChipId) = encArgs.chipId
    /\ RdU16(mem, view.header + OffInterval) = encArgs.intervalSeconds
    /\ RdU8(mem, view.header + OffNameLen) = encArgs.nameLen
    /\ RdU8(mem, view.header + OffItemCount) = encArgs.itemCount
    /\ \A k \in 1..encArgs.nameLen :
          Peek(mem, view.name + k - 1) = NameArray[k]
    /\ \A i \in 1..encArgs.itemCount :
          ItemAt(mem, view.items + ItemSize * (i - 1)) = encArgs.items[i]

\* C1: round trip. Whenever the encoder succeeds, decoding exactly the
\* bytes it wrote succeeds, and the decoded header fields, name bytes and
\* items equal the encoder's inputs.
RoundTrip == DecodedWritten => (decOk /\ ViewShowsInputs)

\* The six acceptance conditions of the wire format, on the raw bytes.
AcceptConditions(buf, len) ==
    /\ ~buf.null
    /\ len >= 12
    /\ buf.mem[1] + 256 * buf.mem[2] = 21580
    /\ buf.mem[3] = 1
    /\ buf.mem[4] = 1
    /\ buf.mem[11] <= 24
    /\ len = 12 + buf.mem[11] + 8 * buf.mem[12]

\* C2: the decoder returns success exactly when the buffer is non-null with
\* len >= 12, magic = 0x544C, version = 1, msgType = 1, nameLen <= 24 and
\* len = 12 + nameLen + 8 * itemCount; every other input is rejected.
DecodeAcceptsExactly ==
    op = "decode" => (decOk <=> AcceptConditions(rxData, rxLen))

\* C2 witness: a packet with a name and items has been accepted.
DecodeAcceptedWitness ==
    /\ op = "decode"
    /\ decOk
    /\ rxData.mem[11] = TILTED_MAX_NAME_LEN
    /\ rxData.mem[12] = MaxItems

\* The return statement of the first validation step that fails, taking the
\* steps in the specified order (138: none fails).
FirstFailingStep(buf, len) ==
    IF buf.null \/ len < 12 THEN 117
    ELSE IF buf.mem[1] + 256 * buf.mem[2] # 21580 THEN 121
    ELSE IF buf.mem[3] # 1 THEN 123
    ELSE IF buf.mem[4] # 1 THEN 125
    ELSE IF buf.mem[11] > 24 THEN 127
    ELSE IF len # 12 + buf.mem[11] + 8 * buf.mem[12] THEN 131
    ELSE 138

\* One frame failing at each validation step, made from a valid packet.
ProbeFrames ==
    LET ok == SubSeq(tilted_encode_readings_packet(
                         Ptr(FreshBuffer(HeaderSize)), HeaderSize,
                         168496141, 980, Ptr(NameArray), 0, Ptr(<< >>), 0,
                         [version |-> 1, msgType |-> 1]).mem, 1, HeaderSize)
    IN  {[data |-> Ptr(SubSeq(ok, 1, HeaderSize - 1)), len |-> HeaderSize - 1],
         [data |-> Ptr(MemCpy(ok, OffMagic, <<0>>)), len |-> HeaderSize],
         [data |-> Ptr(MemCpy(ok, OffVersion, <<2>>)), len |-> HeaderSize],
         [data |-> Ptr(MemCpy(ok, OffMsgType, <<0>>)), len |-> HeaderSize],
         [data |-> Ptr(MemCpy(ok, OffNameLen, <<25>>)), len |-> HeaderSize],
         [data |-> Ptr(MemCpy(ok, OffItemCount, <<1>>)), len |-> HeaderSize]}

\* C3 as stated: a failure is distinguishable from the failures of the
\* other steps. What the caller gets from a call is the returned bool and
\* the out parameter, so two calls failing at different steps would have to
\* differ in one of them.
DistinctFailures ==
    (op = "decode" /\ ~decOk) =>
        \A p \in ProbeFrames :
            LET r == tilted_decode_readings_view(p.data, p.len, StaleView)
            IN  (~r.ok /\ r.line # decLine)
                    => <<r.ok, r.out>> # <<decOk, view>>

\* C3 as amended: validation is fail-fast in the specified order (the call
\* returns at the first failing step), and every failing step returns the
\* same outcome, false with the out parameter as it was.
FailFastInOrder ==
    op = "decode" =>
        /\ decLine = FirstFailingStep(rxData, rxLen)
        /\ decLine # 138 => (~decOk /\ view = StaleView)

\* C3 witness: a frame with a bad version and a wrong length as well was
\* rejected at the version step.
FailFastWitness ==
    /\ op = "decode"
    /\ decLine = 123
    /\ rxLen # 12 + rxData.mem[11] + 8 * rxData.mem[12]

\* The encoder was called with valid inputs: pointers as it requires them,
\* a name that fits, and a capacity that holds the packet.
ValidEncodeCall ==
    /\ op # "init"
    /\ encArgs.nullArg \in {"none", "items"}
    /\ encArgs.nullArg = "items" => encArgs.itemCount = 0
    /\ encArgs.nameLen <= 24
    /\ encArgs.outBufMax >= 12 + encArgs.nameLen + 8 * encArgs.itemCount

\* C4: for valid inputs the encoder returns exactly
\* 12 + nameLen + 8 * itemCount, and that formula recomputed from the
\* nameLen and itemCount bytes of the encoded header gives the same number.
EncodedSize ==
    ValidEncodeCall =>
        /\ wrote = 12 + encArgs.nameLen + 8 * encArgs.itemCount
        /\ wrote = 12 + outBuf[11] + 8 * outBuf[12]

\* C4 witness: a packet with the longest name and a full item array was
\* encoded.
EncodedSizeWitness ==
    /\ ValidEncodeCall
    /\ encArgs.nameLen = TILTED_MAX_NAME_LEN
    /\ encArgs.itemCount = MaxItems
    /\ wrote = BufSize

\* C5: a call with nameLen > 24, or with a computed size above the
\* capacity (or above 65535), returns 0 and leaves every byte of the
\* destination as it was.
RejectWritesNothing ==
    [][(op' = "encode" /\ op = "init") =>
         LET a == encArgs'
             size == 12 + a.nameLen + 8 * a.itemCount
         IN  (a.nameLen > 24 \/ size > a.outBufMax \/ size > 65535)
                 => (wrote' = 0 /\ outBuf' = outBuf)]_vars

\* C5 witness: a call whose packet does not fit the capacity was rejected.
RejectWitness ==
    /\ op = "encode"
    /\ encArgs.nullArg = "none"
    /\ encArgs.nameLen <= 24
    /\ 12 + encArgs.nameLen + 8 * encArgs.itemCount > encArgs.outBufMax
    /\ wrote = 0

\* Whether the decoder accepts the buffer (mem, len).
Accepts(mem, len) ==
    tilted_decode_readings_view(Ptr(mem), len, NullView).ok

\* C6: no strict prefix of an accepted packet is accepted. For the packet
\* just accepted, decoding its first k bytes fails for every k below its
\* length; and a frame that arrived cut short from a sender's acceptable
\* packet was rejected.
NoPrefixAccepted ==
    /\ (op = "decode" /\ decOk) =>
          \A k \in 0..(rxLen - 1) : ~Accepts(SubSeq(rxData.mem, 1, k), k)
    /\ (/\ op = "decode"
        /\ ~rxData.null
        /\ rxLen < wrote
        /\ rxData.mem = SubSeq(outBuf, 1, rxLen)
        /\ Accepts(WrittenBytes, wrote)) => ~decOk

\* C6 witness: an acceptable packet with items, cut inside its last item,
\* was rejected.
PrefixRejectedWitness ==
    /\ op = "decode"
    /\ ~decOk
    /\ ~rxData.null
    /\ rxLen = wrote - 1
    /\ rxLen > HeaderSize
    /\ rxData.mem = SubSeq(outBuf, 1, rxLen)
    /\ Accepts(WrittenBytes, wrote)

\* byte with bit b (0..7) inverted.
FlipBit(byte, b) ==
    IF (byte \div (2 ^ b)) % 2 = 1 THEN byte - 2 ^ b ELSE byte + 2 ^ b

\* mem with bit b (0..15) of the 16-bit magic field inverted.
FlipMagicBit(mem, b) ==
    LET off == OffMagic + (b \div 8)
    IN  MemCpy(mem, off, <<FlipBit(mem[off + 1], b % 8)>>)

\* Header contents the gate must not depend on.
GateNameLens == {0, TILTED_MAX_NAME_LEN}
GateItemCounts == {0, 255}

\* C7: from any accepted packet, inverting any one bit of the magic field,
\* or replacing version by any value above 1, makes the decoder reject the
\* buffer, whatever nameLen and itemCount say.
MagicVersionGate ==
    (op = "decode" /\ decOk) =>
        /\ \A b \in 0..15 :
              /\ ~Accepts(FlipMagicBit(rxData.mem, b), rxLen)
              /\ \A n \in GateNameLens, c \in GateItemCounts :
                    ~Accepts(MemCpy(FlipMagicBit(rxData.mem, b),
                                    OffNameLen, <<n, c>>), rxLen)
        /\ \A v \in 2..255 :
              /\ ~Accepts(MemCpy(rxData.mem, OffVersion, <<v>>), rxLen)
              /\ \A n \in GateNameLens, c \in GateItemCounts :
                    ~Accepts(MemCpy(MemCpy(rxData.mem, OffVersion, <<v>>),
                                    OffNameLen, <<n, c>>), rxLen)

\* C7 witness: a frame that differs from an acceptable packet only in its
\* magic field was rejected at the magic step.
MagicGateWitness ==
    /\ op = "decode"
    /\ ~decOk
    /\ decLine = 121
    /\ rxLen = wrote
    /\ Accepts(WrittenBytes, wrote)
    /\ SubSeq(rxData.mem, 3, rxLen) = SubSeq(WrittenBytes, 3, wrote)

\* C8: the decoder reads no byte at an index >= len; a buffer shorter than
\* 12 bytes is rejected before any byte is read; and the view's name and
\* item offsets are computed only once the length check has passed.
DecoderReadsInBounds ==
    op = "decode" =>
        /\ \A i \in decReads : 0 <= i /\ i < rxLen
        /\ rxLen < 12 => (~decOk /\ decReads = {})
        /\ ~decOk => view = StaleView

\* C8 witness: a buffer of 11 bytes was rejected with nothing read.
ShortBufferWitness ==
    /\ op = "decode"
    /\ ~rxData.null
    /\ rxLen = 11
    /\ Len(rxData.mem) = 11
    /\ ~decOk
    /\ decReads = {}

\* The callback was handed a packet it must reject.
MustReject(data, len) ==
    data.null \/ len <= 0 \/ ~AcceptConditions(data, len % 65536)

\* C9: a rejected packet has no effect. A failing decoder call leaves the
\* view as it was, and a callback whose packet the decoder rejects (or with
\* len <= 0 or no buffer) leaves the pending flag and the staged JSON
\* unchanged.
RejectedHasNoEffect ==
    [][(recvCount' # recvCount /\ MustReject(cbData', cbLen')) =>
          /\ cbView' = NullView
          /\ tilted_decode_readings_view(cbData', cbLen' % 65536,
                                         StaleView).out = StaleView
          /\ havePending_' = havePending_
          /\ pendingJson_' = pendingJson_]_vars

\* C9 witness: a packet was rejected while a record was staged.
RejectedWhilePendingWitness ==
    /\ recvCount = 2
    /\ ~cbAccepted
    /\ ~cbData.null
    /\ cbLen >= HeaderSize
    /\ havePending_
    /\ pendingJson_ # << >>

\* C10: on success the name slice starts at offset 12 and the item slice at
\* 12 + nameLen; item i occupies [12 + nameLen + 8i, 12 + nameLen + 8i + 8)
\* inside [0, len); and the callback reads nothing outside the buffer.
ExtractionReadsInBounds ==
    cbAccepted =>
        LET nameLen == cbData.mem[11]
            itemCount == cbData.mem[12]
        IN  /\ cbView.header = 0
            /\ cbView.name = 12
            /\ cbView.items = 12 + nameLen
            /\ \A i \in 0..(itemCount - 1) :
                  /\ 0 <= cbView.items + 8 * i
                  /\ cbView.items + 8 * i + 8 <= cbLen
            /\ \A r \in cbReads : 0 <= r /\ r < cbLen /\ r < Len(cbData.mem)
            /\ \A i \in 0..(itemCount - 1) :
                  12 + nameLen + 8 * i \in cbReads

\* C10 witness: a packet with a name and six items was extracted, its last
\* item read up to the last byte of the buffer.
ExtractionWitness ==
    /\ cbAccepted
    /\ cbData.mem[11] = 13
    /\ cbData.mem[12] = 6
    /\ cbLen - 1 \in cbReads


\* The items of a well-formed frame, in wire order.
FrameItems(mem) ==
    [k \in 1..mem[12] |-> ItemAt(mem, 12 + mem[11] + 8 * (k - 1))]

\* A type tag the receiver knows: 1..6.
KnownType(it) == it.type \in 1..6

\* The same packet with the items of unknown type removed: the header with
\* the item count lowered, the name, and the remaining items in order.
WithoutUnknownItems(mem) ==
    LET kept == SelectSeq(FrameItems(mem), KnownType)
    IN  SubSeq(mem, 1, 11) \o <<Len(kept)>> \o SubSeq(mem, 13, 12 + mem[11])
        \o ItemsBytes(kept, Len(kept))

\* C11: unknown type tolerance. A well-formed packet is accepted whatever
\* type tags its items carry, and the record staged for it is exactly the
\* record staged for the same packet with the items whose type is outside
\* 1..6 removed.
UnknownItemsIgnored ==
    /\ (recvCount > 0 /\ ~MustReject(cbData, cbLen)) => cbAccepted
    /\ (cbAccepted /\ havePending_) =>
          LET stripped == WithoutUnknownItems(cbData.mem)
              r == onRecv(Ptr(stripped), Len(stripped), FALSE, << >>)
          IN  /\ r.accepted
              /\ r.pendingJson = pendingJson_

\* C11 witness: a packet with unknown items before, between and after a
\* Tilt and a Temp item was accepted and its record is staged.
UnknownItemsWitness ==
    /\ cbAccepted
    /\ havePending_
    /\ cbData.mem[12] = 5
    /\ ~KnownType(FrameItems(cbData.mem)[1])
    /\ FrameItems(cbData.mem)[2].type = 1
    /\ ~KnownType(FrameItems(cbData.mem)[3])
    /\ FrameItems(cbData.mem)[4].type = 2
    /\ ~KnownType(FrameItems(cbData.mem)[5])
    /\ Len(pendingJson_) > 1


\* The member `key` of a serialized record; the record has it.
Member(json, key) ==
    json[CHOOSE k \in 1..Len(json) : json[k][1] = key][2]

HasMember(json, key) == \E k \in 1..Len(json) : json[k][1] = key

\* Whether a reported float equals num / den.
FloatEquals(f, num, den) == f.n * den = num * f.d

\* The last item of type t in the list is item k: its value is the one the
\* record ends up with.
LastOfType(items, k, t) ==
    /\ items[k].type = t
    /\ \A j \in (k + 1)..Len(items) : items[j].type # t

\* C12: for every Tilt, Temp and AuxTemp item, whatever scale10 it carries,
\* the record reports value * 10^scale10 as angle, temp and aux_temp.
ScaleHonoured ==
    (cbAccepted /\ havePending_) =>
        LET items == FrameItems(cbData.mem)
            Reported(t) == Member(pendingJson_,
                               CASE t = 1 -> "angle"
                                 [] t = 2 -> "temp"
                                 [] t = 3 -> "aux_temp")
        IN  \A k \in 1..Len(items), t \in {1, 2, 3} :
                LastOfType(items, k, t) =>
                    IF items[k].scale10 >= 0
                    THEN FloatEquals(Reported(t),
                             items[k].value * Pow10(items[k].scale10), 1)
                    ELSE FloatEquals(Reported(t),
                             items[k].value, Pow10(-items[k].scale10))


\* num / den (den > 0) rounded to an integer, halves away from zero.
RoundHalfAway(num, den) ==
    IF num >= 0 THEN (2 * num + den) \div (2 * den)
    ELSE -((2 * (-num) + den) \div (2 * den))

\* Whether the frame carries an item of type t.
HasItem(mem, t) == \E k \in 1..mem[12] : FrameItems(mem)[k].type = t

\* Thousandths of the gravity the polynomial "0.9+0.002*tilt" gives for a
\* tilt of tilt.n / tilt.d degrees, rounded to 3 decimals.
GravityMillis(tilt) == RoundHalfAway(900 * tilt.d + 2 * tilt.n, tilt.d)

\* C13: whenever an accepted packet contains both a Tilt and a Temp item
\* and a non-empty polynomial has been configured, the record contains
\* gravity, equal to the polynomial at (tilt, temp) rounded to 3 decimals
\* with halves away from zero, and gravity_unit "G".
GravityDerived ==
    (/\ cbAccepted
     /\ havePending_
     /\ polynomial_ # ""
     /\ HasItem(cbData.mem, 1)
     /\ HasItem(cbData.mem, 2)) =>
        /\ HasMember(pendingJson_, "gravity")
        /\ HasMember(pendingJson_, "gravity_unit")
        /\ Member(pendingJson_, "gravity_unit") = "G"
        /\ FloatEquals(Member(pendingJson_, "gravity"),
                       GravityMillis(Member(pendingJson_, "angle")), 1000)


\* C14: field presence mirrors the items found. The staged record always
\* has name; it has angle iff a Tilt item is present, temp and temp_unit iff
\* Temp, aux_temp and aux_temp_unit iff AuxTemp, battery iff BatteryMv,
\* interval iff IntervalS, rssi iff RssiDbm; and it has no gravity whenever
\* tilt, temp or the polynomial is missing.
FieldsMirrorItems ==
    (cbAccepted /\ havePending_) =>
        LET Has(key) == HasMember(pendingJson_, key)
            Item(t) == HasItem(cbData.mem, t)
        IN  /\ Has("name")
            /\ Has("angle") <=> Item(1)
            /\ Has("temp") <=> Item(2)
            /\ Has("temp_unit") <=> Item(2)
            /\ Has("aux_temp") <=> Item(3)
            /\ Has("aux_temp_unit") <=> Item(3)
            /\ Has("battery") <=> Item(4)
            /\ Has("interval") <=> Item(5)
            /\ Has("rssi") <=> Item(6)
            /\ (~Item(1) \/ ~Item(2) \/ polynomial_ = "") => ~Has("gravity")

\* C14 witness: with a polynomial configured, a packet with a Tilt and an
\* RssiDbm item and no other known item was accepted: the record has name,
\* angle and rssi and nothing else.
FieldsMirrorWitness ==
    /\ cbAccepted
    /\ havePending_
    /\ polynomial_ # ""
    /\ HasItem(cbData.mem, 1)
    /\ HasItem(cbData.mem, 6)
    /\ \A t \in 2..5 : ~HasItem(cbData.mem, t)
    /\ {pendingJson_[k][1] : k \in 1..Len(pendingJson_)} = {"name", "angle", "rssi"}


\* C15: a BatteryMv item is reported as battery = value / 1000 (volts); an
\* IntervalS and an RssiDbm item are reported as the integer value
\* unchanged; the item's scale10 plays no part.
IntegerItemsUnscaled ==
    (cbAccepted /\ havePending_) =>
        LET items == FrameItems(cbData.mem)
        IN  \A k \in 1..Len(items) :
                /\ LastOfType(items, k, 4) =>
                      FloatEquals(Member(pendingJson_, "battery"),
                                  items[k].value, 1000)
                /\ LastOfType(items, k, 5) =>
                      Member(pendingJson_, "interval") = items[k].value
                /\ LastOfType(items, k, 6) =>
                      Member(pendingJson_, "rssi") = items[k].value

\* C15 witness: a packet whose BatteryMv, IntervalS and RssiDbm items all
\* carry a scale10 other than 0 was accepted and its record is staged.
IntegerItemsWitness ==
    /\ cbAccepted
    /\ havePending_
    /\ \A t \in {4, 5, 6} :
          \E k \in 1..cbData.mem[12] :
              /\ FrameItems(cbData.mem)[k].type = t
              /\ FrameItems(cbData.mem)[k].scale10 # 0
    /\ Member(pendingJson_, "rssi") < 0


\* The record of one packet: what a callback stages for it on a receiver
\* with nothing staged.
RecordOf(f) == onRecv(f.data, f.len, FALSE, << >>).pendingJson

\* C16: the pending slot is single-slot, last-write-wins. After any run of
\* accepted packets with no take in between, one result is pending: the
\* record of the most recently accepted packet alone; and a take returns
\* that record and leaves nothing pending.
PendingIsLastAccepted ==
    /\ [](acceptedLog # << >> =>
            /\ havePending_
            /\ pendingJson_ = RecordOf(acceptedLog[Len(acceptedLog)]))
    /\ [][(loopPc = "publish" /\ loopPc' = "post" /\ acceptedLog # << >>) =>
            /\ jsonBody' = RecordOf(acceptedLog[Len(acceptedLog)])
            /\ ~havePending_'
            /\ pendingJson_' = << >>]_vars

\* C16 witness: two packets with different records were accepted with no
\* take in between, and the loop is about to take.
OverwrittenWitness ==
    /\ Len(acceptedLog) = 2
    /\ Len(RecordOf(acceptedLog[1])) > Len(RecordOf(acceptedLog[2]))
    /\ Len(RecordOf(acceptedLog[2])) > 1
    /\ havePending_
    /\ loopPc = "publish"


\* C17: takePendingJson returns the staged JSON and clears the pending flag
\* when a result is pending, and returns the empty string leaving the state
\* unchanged when none is; the second of two consecutive takes returns the
\* empty string; and hasPending() is false after any take or clearPending.
TakeReturnsThenEmpty ==
    /\ [][op' = "take" =>
            IF havePending_
            THEN /\ jsonBody' = pendingJson_
                 /\ ~havePending_'
            ELSE /\ jsonBody' = << >>
                 /\ havePending_' = havePending_
                 /\ pendingJson_' = pendingJson_]_vars
    /\ [][(op = "take" /\ op' = "take") => jsonBody' = << >>]_vars
    /\ [](op \in {"take", "clear"} => ~hasPending)

\* C17 witness: a take returned the record of an accepted packet and left
\* nothing pending.
TakeWitness ==
    /\ op = "take"
    /\ cbAccepted
    /\ jsonBody = RecordOf([data |-> cbData, len |-> cbLen])
    /\ Len(jsonBody) > 1
    /\ ~havePending_
    /\ pendingJson_ = << >>


\* C18: the receive callback only decodes and stages. A callback step starts
\* no WiFi connection, issues no HTTP POST and moves the main loop nowhere;
\* a POST is issued only by the main loop, in publishBrewfather, and only in
\* an iteration of loop() whose hasPending() returned true.
CallbackOnlyStages ==
    /\ [][recvCount' # recvCount =>
            /\ posts' = posts
            /\ wifiBegun' = wifiBegun
            /\ loopPc' = loopPc
            /\ jsonBody' = jsonBody]_vars
    /\ [][posts' # posts =>
            /\ recvCount' = recvCount
            /\ loopPc = "post"
            /\ sawPending
            /\ posts' = Append(posts, jsonBody)]_vars

\* C18 witness: the loop has posted one record in an iteration that saw a
\* pending result, and a packet that arrived after the take, while WiFi was
\* connected, is staged and not posted.
PostedFromLoopWitness ==
    /\ Len(posts) = 1
    /\ Len(posts[1]) > 1
    /\ sawPending
    /\ wifiBegun
    /\ loopPc = "ensureEspNow"
    /\ recvCount = 2
    /\ havePending_
    /\ pendingJson_ # posts[1]


Abs(x) == IF x < 0 THEN -x ELSE x

\* r is num / den (den > 0) rounded to an integer with halves going away
\* from zero: r is within one half of the quotient, and where it is exactly
\* one half away, it is the one of the two neighbours farther from zero.
IsRoundHalfAway(r, num, den) ==
    \/ 2 * Abs(r * den - num) < den
    \/ /\ 2 * Abs(r * den - num) = den
       /\ Abs(r * den) > Abs(num)

\* C19: scaleAndRound rounds half away from zero for both signs: for the
\* exponents -3, -2, -1, 0, 1 the result is round(value * 1000),
\* round(value * 100), round(value * 10), round(value), round(value / 10);
\* scaleAndRound(23.47, -1) = 235, scaleAndRound(3.3, 0) = 3,
\* scaleAndRound(-0.5, 0) = -1 and scaleAndRound(0.5, 0) = 1.
RoundsHalfAwayFromZero ==
    op \in {"scaleAndRound", "oneDecimal"} =>
        LET v == scaleArgs.value
            e == scaleArgs.scale10
        IN  /\ e = -3 => IsRoundHalfAway(scaled, v.n * 1000, v.d)
            /\ e = -2 => IsRoundHalfAway(scaled, v.n * 100, v.d)
            /\ e = -1 => IsRoundHalfAway(scaled, v.n * 10, v.d)
            /\ e = 0 => IsRoundHalfAway(scaled, v.n, v.d)
            /\ e = 1 => IsRoundHalfAway(scaled, v.n, v.d * 10)
            /\ (v.n = 234700 /\ v.d = 10000 /\ e = -1) => scaled = 235
            /\ (v.n = 33000 /\ v.d = 10000 /\ e = 0) => scaled = 3
            /\ (v.n = -5000 /\ v.d = 10000 /\ e = 0) => scaled = -1
            /\ (v.n = 5000 /\ v.d = 10000 /\ e = 0) => scaled = 1

\* C19 witness: a negative half was rounded at a scale other than 0:
\* scaleAndRound(-0.025, -2) returned -3.
NegativeHalfWitness ==
    /\ op = "scaleAndRound"
    /\ scaleArgs.value = [n |-> -250, d |-> 10000]
    /\ scaleArgs.scale10 = -2
    /\ scaled = -3

\* C20: for every exponent outside {-3, -2, -1, 0, 1} scaleAndRound returns
\* what it returns for exponent 0, the value rounded to an integer.
UnsupportedExponentAsZero ==
    (op = "scaleAndRound" /\ scaleArgs.scale10 \notin -3..1) =>
        /\ scaled = scaleAndRound(scaleArgs.value, 0)
        /\ IsRoundHalfAway(scaled, scaleArgs.value.n, scaleArgs.value.d)

\* C20 witness: scaleAndRound(23.47, 2) returned 23.
UnsupportedExponentWitness ==
    /\ op = "scaleAndRound"
    /\ scaleArgs.value = [n |-> 234700, d |-> 10000]
    /\ scaleArgs.scale10 = 2
    /\ scaled = 23


\* The tag a convenience constructor is named after.
CanonicalType(ctor) ==
    CASE ctor = "tiltDeg" -> 1
      [] ctor = "tempC" -> 2
      [] ctor = "auxTempC" -> 3
      [] ctor = "batteryMv" -> 4
      [] ctor = "intervalS" -> 5
      [] ctor = "rssiDbm" -> 6

\* C21: every item a convenience constructor returns carries the tag and
\* scale of its kind and reserved = 0: tiltDeg, tempC, auxTempC give type
\* Tilt, Temp, AuxTemp with scale10 = -1 and value = round(10 * x);
\* batteryMv, intervalS, rssiDbm give type BatteryMv, IntervalS, RssiDbm
\* with scale10 = 0 and the integer argument as the value.
ConstructorsCanonical ==
    (op \in {"oneDecimal", "integerItem"}) =>
        LET it == madeItem.item
            x == scaleArgs.value
        IN  /\ it.type = CanonicalType(madeItem.ctor)
            /\ it.reserved = 0
            /\ madeItem.ctor \in {"tiltDeg", "tempC", "auxTempC"} =>
                  /\ op = "oneDecimal"
                  /\ it.scale10 = -1
                  /\ IsRoundHalfAway(it.value, 10 * x.n, x.d)
            /\ madeItem.ctor \in {"batteryMv", "intervalS", "rssiDbm"} =>
                  /\ op = "integerItem"
                  /\ it.scale10 = 0
                  /\ it.value = madeItem.intArg

\* C21 witness: auxTempC(-0.15) returned {AuxTemp, -1, 0, -2}.
ConstructorsWitness ==
    /\ op = "oneDecimal"
    /\ madeItem.ctor = "auxTempC"
    /\ scaleArgs.value = [n |-> -1500, d |-> 10000]
    /\ madeItem.item =
         [type |-> TypeAuxTemp, scale10 |-> -1, reserved |-> 0, value |-> -2]


\* C27: once start() has been called on the Bmp280Sampler, repeated
\* sample() calls make pending() false after finitely many calls, whether
\* begin() found the device or not.
Bmp280PendingEnds ==
    Bmp280Sampler_pending(bmp280Sampler)
        ~> ~Bmp280Sampler_pending(bmp280Sampler)


\* A reading inside the open range (-100, 150).
DsInRange(t) == t.d # 0 /\ t.n > -100 * t.d /\ t.n < 150 * t.d

\* What one sample() call on the Ds18b20Sampler has to do, from the state
\* before it, the state after it and the value returned.
DsSampleContract ==
    LET s == ds18b20Sampler
        due == millis - s.startMs_ >= s.conversionMs_
    IN  /\ (s.state_ \in {"Idle", "Ready"} \/ ~due) =>
              /\ call'.ret = FALSE
              /\ ds18b20Sampler' = s
        /\ (s.state_ = "Converting" /\ due) =>
              /\ call'.ret = TRUE
              /\ ds18b20Sampler'.state_ = "Ready"
              /\ ds18b20Sampler'.startMs_ = s.startMs_
              /\ ds18b20Sampler'.conversionMs_ = s.conversionMs_
              /\ DsInRange(call'.t) => ds18b20Sampler'.tempC_ = call'.t
              /\ ~DsInRange(call'.t) => ds18b20Sampler'.tempC_ = NaN

\* C28: Ds18b20Sampler is the three-state machine Idle -> Converting ->
\* Ready. sample() does nothing and returns false in Idle, in Ready and
\* while fewer than conversionMs_ ms have passed since start(); the first
\* sample() at or after conversionMs_ moves to Ready and returns true.
\* temperatureC() is NaN from start() until then, and stays NaN in Ready
\* when the reading is outside (-100, 150).
Ds18b20StateMachine ==
    /\ [](/\ ds18b20Sampler.state_ \in {"Idle", "Converting", "Ready"}
          /\ Ds18b20Sampler_pending(ds18b20Sampler) =>
                isnan(Ds18b20Sampler_temperatureC(ds18b20Sampler))
          /\ ds18b20Sampler.conversionMs_ \in {94, 188, 375, 750})
    /\ [][/\ DsSampleCall => DsSampleContract
          /\ DsStartCall =>
                /\ ds18b20Sampler'.state_ = "Converting"
                /\ ds18b20Sampler'.startMs_ = millis
                /\ isnan(ds18b20Sampler'.tempC_)
          /\ (ds18b20Sampler.state_ = "Converting"
                /\ ds18b20Sampler'.state_ = "Ready") => DsSampleCall
          /\ (ds18b20Sampler.state_ # "Converting"
                /\ ds18b20Sampler'.state_ = "Converting") => DsStartCall
         ]_vars

\* C28 witness: 188 ms after the start() of a 10-bit conversion a sample()
\* that read -127 (no device) returned true and left the sampler Ready
\* with NaN.
Ds18b20Witness ==
    /\ call = [fn |-> "sample", ret |-> TRUE, t |-> [n |-> -127, d |-> 1]]
    /\ ds18b20Sampler =
         [state_ |-> "Ready", startMs_ |-> 0, conversionMs_ |-> 188,
          tempC_ |-> NaN]
    /\ millis = 188


\* C29: after any sequence of reset(n), begin() and sample() the MpuSampler
\* has samplesTaken_ <= targetSamples_ <= 10 and never indexes samples_ at
\* or beyond 10; only a valid tilt reading (above 0 and not 90) increases
\* samplesTaken_, by one; once the window is complete sample() returns false
\* and changes nothing; tempC is NaN until the window completes.
MpuWindowBounded ==
    /\ [](/\ mpuSampler.samplesTaken_ <= mpuSampler.targetSamples_
          /\ mpuSampler.targetSamples_ <= 10
          /\ ~mpuSampler.overrun
          /\ mpuSampler.samplesTaken_ < mpuSampler.targetSamples_ =>
                isnan(MpuSampler_tempC(mpuSampler)))
    /\ [][/\ mpuSampler'.samplesTaken_ > mpuSampler.samplesTaken_ =>
                /\ MpuSampleCall
                /\ call'.ret = TRUE
                /\ mpuSampler'.samplesTaken_ = mpuSampler.samplesTaken_ + 1
                /\ LET tilt == mpuSampler'.samples_[mpuSampler'.samplesTaken_]
                   IN  tilt.d > 0 /\ tilt.n > 0 /\ tilt.n # 90 * tilt.d
          /\ (MpuSampleCall
                /\ mpuSampler.samplesTaken_ >= mpuSampler.targetSamples_) =>
                /\ call'.ret = FALSE
                /\ mpuSampler' = mpuSampler
         ]_vars

\* C29 witness: the largest window, 10, was filled by the tenth valid
\* reading, and the temperature was taken.
MpuWindowWitness ==
    /\ call = [fn |-> "sample", ret |-> TRUE]
    /\ mpuSampler.targetSamples_ = 10
    /\ mpuSampler.samplesTaken_ = 10
    /\ mpuSampler.samples_[10] = Accel175.deg
    /\ isfinite(mpuSampler.tempC_)

\* C30: pending() and ready() of the MpuSampler are never both true, and
\* once begin() was called with a window above 0 exactly one of them is
\* true: pending() until targetSamples_ valid samples were taken, ready()
\* from then on until the next reset.
MpuPendingOrReady ==
    /\ [](LET m == mpuSampler
          IN  /\ ~(MpuSampler_pending(m) /\ MpuSampler_ready(m))
              /\ ~(MpuSampler_pendingRunningMedian(m)
                     /\ MpuSampler_readyRunningMedian(m))
              /\ (m.initialized_ /\ m.targetSamples_ > 0) =>
                    /\ MpuSampler_pending(m) # MpuSampler_ready(m)
                    /\ MpuSampler_pending(m) =
                          (m.samplesTaken_ < m.targetSamples_)
                    /\ MpuSampler_ready(m) =
                          (m.samplesTaken_ = m.targetSamples_)
                    /\ MpuSampler_pendingRunningMedian(m) = MpuSampler_pending(m)
                    /\ MpuSampler_readyRunningMedian(m) = MpuSampler_ready(m))
    /\ [][/\ (MpuSampler_ready(mpuSampler) /\ ~MpuSampler_ready(mpuSampler'))
                => MpuResetCall
          /\ (MpuSampler_pending(mpuSampler) /\ MpuSampler_ready(mpuSampler'))
                => /\ MpuSampleCall
                   /\ mpuSampler'.samplesTaken_ = mpuSampler.targetSamples_
         ]_vars

\* C30 witness: with a window of 3 the sampler was pending after the second
\* valid reading and is ready after the third.
MpuReadyWitness ==
    /\ call = [fn |-> "sample", ret |-> TRUE]
    /\ mpuSampler.targetSamples_ = 3
    /\ mpuSampler.samplesTaken_ = 3
    /\ MpuSampler_ready(mpuSampler)
    /\ ~MpuSampler_pending(mpuSampler)


\* The members of a serialized record that bear `key`.
MembersNamed(json, key) == {k \in 1..Len(json) : json[k][1] = key}

\* The member an item type is reported as.
KeyOfType(t) ==
    CASE t = 1 -> "angle"
      [] t = 2 -> "temp"
      [] t = 3 -> "aux_temp"
      [] t = 4 -> "battery"
      [] t = 5 -> "interval"
      [] t = 6 -> "rssi"

\* C26: the items are processed in wire order 0 .. itemCount-1, so when a
\* packet carries several items of one type (two AuxTemp items, say) the
\* record holds exactly one field for that type, with the value of the last
\* such item.
LastItemOfTypeWins ==
    (cbAccepted /\ havePending_) =>
        LET items == FrameItems(cbData.mem)
        IN  \A t \in 1..6 :
                /\ Cardinality(MembersNamed(pendingJson_, KeyOfType(t))) <= 1
                /\ \A k \in 1..Len(items) :
                      (/\ LastOfType(items, k, t)
                       /\ \E j \in 1..(k - 1) : items[j].type = t) =>
                          /\ Cardinality(MembersNamed(pendingJson_,
                                                      KeyOfType(t))) = 1
                          /\ (t \in 1..3 /\ items[k].scale10 = -1) =>
                                FloatEquals(Member(pendingJson_, KeyOfType(t)),
                                            items[k].value, 10)
                          /\ (t \in 1..3 /\ items[k].scale10 = 0) =>
                                FloatEquals(Member(pendingJson_, KeyOfType(t)),
                                            items[k].value, 1)
                          /\ t = 4 =>
                                FloatEquals(Member(pendingJson_, "battery"),
                                            items[k].value, 1000)
                          /\ t \in 5..6 =>
                                Member(pendingJson_, KeyOfType(t))
                                    = items[k].value

\* C26 witness: a packet with the AuxTemp items 21.5 and then 22.1 was
\* accepted; the record has one aux_temp, 22.1.
LastItemOfTypeWitness ==
    /\ cbAccepted
    /\ havePending_
    /\ \E j, k \in 1..cbData.mem[12] :
          /\ j < k
          /\ FrameItems(cbData.mem)[j] =
               [type |-> TypeAuxTemp, scale10 |-> -1, reserved |-> 0,
                value |-> 215]
          /\ FrameItems(cbData.mem)[k] =
               [type |-> TypeAuxTemp, scale10 |-> -1, reserved |-> 0,
                value |-> 221]
    /\ Cardinality(MembersNamed(pendingJson_, "aux_temp")) = 1
    /\ FloatEquals(Member(pendingJson_, "aux_temp"), 221, 10)


\* The whole text "<prefix>-%08x" of a name call.
NameText(c) == c.typePrefix.mem \o <<45>> \o Hex8(c.id)

\* C22: every packet the sensor encodes has nameLen <= 24.
\* tilted_build_name_from_type with a 25-byte buffer returns at most 24 for
\* any prefix and chip id, truncating the name; sendSensorData clamps
\* nameLen to 24 before it sizes and encodes, so the sizing and the encoder
\* never reject the sensor's packet for its name.
NameFitsPacket ==
    /\ (nameCall # NoNameCall /\ ~nameCall.out.null /\ ~nameCall.typePrefix.null
          /\ nameCall.outMax = 25) =>
          /\ nameCall.ret <= 24
          /\ nameCall.ret = IF Len(NameText(nameCall)) > 24
                            THEN 24 ELSE Len(NameText(nameCall))
          /\ SubSeq(nameCall.mem, 1, nameCall.ret)
                = SubSeq(NameText(nameCall), 1, nameCall.ret)
          /\ nameCall.mem[nameCall.ret + 1] = 0
    /\ sendOut.via = "sendSensorData" =>
          /\ sendOut.r.nameLen <= 24
          /\ sendOut.r.pktLen = 12 + sendOut.r.nameLen + 8 * sendOut.r.itemCount
          /\ sendOut.r.wrote = sendOut.r.pktLen
          /\ sendOut.r.outcome \in {"sent", "init failed"}
          /\ sendOut.r.outcome = "sent" =>
                /\ Len(sendOut.r.packet) = sendOut.r.pktLen
                /\ sendOut.r.packet[11] = sendOut.r.nameLen

\* C22 witness: a prefix of 16 characters, whose name takes 25 characters,
\* was cut to 24 in the 25-byte buffer.
NameTruncatedWitness ==
    /\ nameCall.outMax = 25
    /\ ~nameCall.out.null
    /\ nameCall.typePrefix = Ptr(LongPrefix(16))
    /\ nameCall.ret = 24
    /\ nameCall.mem[25] = 0

\* C23: the sensor never transmits after a build failure. If
\* tilted_readings_packet_size returns 0, or the packet exceeds the stack
\* buffer, or the encoder returns a length other than pktLen, esp_now_send
\* is not called in that wake cycle and the sensor goes to deep sleep.
NoSendAfterBuildFailure ==
    (sendOut.via # "none"
       /\ (\/ sendOut.r.pktLen = 0
           \/ sendOut.r.pktLen > sendOut.r.bufSize
           \/ sendOut.r.wrote # sendOut.r.pktLen)) =>
        /\ sendOut.r.sends = 0
        /\ sendOut.r.packet = << >>
        /\ sendOut.r.slept

\* C23 witness: the sizing gave a length that fits and ESP-NOW came up, the
\* encoder returned another length; nothing was sent and actuallySleep()
\* was called.
BuildFailureWitness ==
    /\ sendOut.via = "faults"
    /\ sendOut.r.outcome = "encode failed"
    /\ sendOut.r.pktLen > 0
    /\ sendOut.r.pktLen <= sendOut.r.bufSize
    /\ sendOut.r.wrote # sendOut.r.pktLen
    /\ sendOut.r.sends = 0
    /\ sendOut.r.slept


\* C24: calibration lasts exactly CALIBRATION_ITERATIONS wake cycles. Once
\* calibration posture was seen on a boot that is no deep-sleep wake, that
\* cycle and the 59 after it run with the 30 s interval and leave the RTC
\* word at the cycle's number (1..60), and sleep for 30 s; every later
\* cycle runs and sleeps with the normal interval of 980 s and leaves the
\* RTC word at 60.
CalibrationLastsSixtyCycles ==
    (cycle >= 1 /\ pc \in {"start", "loop", "asleep"}) =>
        IF cycle <= CALIBRATION_ITERATIONS
        THEN /\ sleep_interval = CALIBRATION_INTERVAL
             /\ rtcUserMemory = cycle
             /\ calibrationIterations = cycle
             /\ pc = "asleep" => deepSleepFor = CALIBRATION_INTERVAL
        ELSE /\ sleep_interval = NORMAL_INTERVAL
             /\ rtcUserMemory = CALIBRATION_ITERATIONS
             /\ pc = "asleep" => deepSleepFor = NORMAL_INTERVAL

\* The 61st cycle since calibration began has gone to sleep for 980 s after
\* sending its readings with that interval.
CalibrationEndedWitness ==
    /\ cycle = CALIBRATION_ITERATIONS + 1
    /\ resetReason = "REASON_DEEP_SLEEP_AWAKE"
    /\ pc = "asleep"
    /\ deepSleepFor = NORMAL_INTERVAL
    /\ rtcUserMemory = CALIBRATION_ITERATIONS
    /\ sendOut.r.outcome = "sent"

\* C25: the wake timeout holds in every mode. A pass of loop() in
\* STATE_SAMPLING that starts more than WAKE_TIMEOUT after boot does not
\* leave the sensor in STATE_SAMPLING.
WakeTimeoutInEveryMode ==
    [][(millis - bootTime > WAKE_TIMEOUT /\ LoopSampling)
          => currentState' # "STATE_SAMPLING"]_vars


\* C31: filteredTiltDeg is NaN when no sample has been collected, and
\* otherwise the median of the samples collected in the current window, a
\* partially filled window included.
FilteredTiltIsMedian ==
    LET m == mpuSampler
        filtered == MpuSampler_filteredTiltDeg(m)
    IN  (m.initialized_ /\ ~m.overrun) =>
            IF m.samplesTaken_ = 0 THEN isnan(filtered)
            ELSE /\ ~isnan(filtered)
                 /\ FEqual(filtered, getMedian(SubSeq(m.samples_, 1,
                                                     m.samplesTaken_)))


\* C32: tilted_median returns the middle element of the sorted values for
\* an odd count and the mean of the two middle ones for an even count, the
\* same for every order of the input, and leaves the caller's array as it
\* was. (Every order: exchanging any two elements of any input does not
\* change the result.)
Swapped(values, i, j) == [values EXCEPT ![i] = values[j], ![j] = values[i]]

MedianOfSorted ==
    medianCall # NoMedianCall =>
        LET values == medianCall.args
            N == Len(values)
            sorted == SortFloats(values)
        IN  /\ FEqual(medianCall.ret,
                      IF N % 2 = 1 THEN sorted[(N + 1) \div 2]
                      ELSE FMean(sorted[N \div 2], sorted[N \div 2 + 1]))
            /\ \A i, j \in 1..N :
                  FEqual(tilted_median(Swapped(values, i, j)).ret,
                         medianCall.ret)
            /\ medianCall.after = values

\* The median of 175, 0, 45, 0 is 22.5.
MedianWitness ==
    /\ medianCall.args = <<[n |-> 1750, d |-> 10], [n |-> 0, d |-> 1],
                           [n |-> 45, d |-> 1], [n |-> 0, d |-> 1]>>
    /\ FEqual(medianCall.ret, [n |-> 225, d |-> 10])
    /\ medianCall.after = medianCall.args


\* C33: under every interleaving of the receive callback with the loop's
\* hasPending() and takePendingJson(), whenever hasPending() is true the
\* staged JSON is the complete record of the most recently accepted packet;
\* the pending flag is never true over an empty or cleared pendingJson_.
PendingNeverCleared ==
    hasPending =>
        /\ acceptedLog # << >>
        /\ pendingJson_ # << >>
        /\ pendingJson_ = RecordOf(acceptedLog[Len(acceptedLog)])


\* C34: the main loop drains what it observes, for every configuration, an
\* empty forwarding URL included: once the arrivals have ended the gateway
\* comes to a state with nothing pending and stays there.
LoopDrainsPending == <>[](~hasPending)


\* C35: each staged record is forwarded at most once. The HTTP POSTs never
\* outnumber the accepted packets, and the records posted are records of
\* different accepted packets, in the order of their arrival.
RECURSIVE PostedOnce(_, _)
PostedOnce(bodies, accepted) ==
    IF bodies = << >> THEN TRUE
    ELSE IF accepted = << >> THEN FALSE
    ELSE IF Head(bodies) = RecordOf(Head(accepted))
    THEN PostedOnce(Tail(bodies), Tail(accepted))
    ELSE PostedOnce(bodies, Tail(accepted))

ForwardedAtMostOnce ==
    /\ Len(posts) <= Len(acceptedLog)
    /\ PostedOnce(SelectSeq(posts, LAMBDA body : body # << >>), acceptedLog)

\* Two packets were accepted and the record of each was posted.
ForwardedTwiceWitness ==
    /\ Len(acceptedLog) = 2
    /\ Len(posts) = 2
    /\ posts[1] = RecordOf(acceptedLog[1])
    /\ posts[2] = RecordOf(acceptedLog[2])
    /\ posts[1] # posts[2]
    /\ ~hasPending
    /\ loopPc = "loop"


\* C36: within one wake cycle currentState only moves forward along
\* SAMPLING -> PROCESSING -> TRANSMITTING -> SLEEPING, or from SAMPLING to
\* SLEEPING directly; loop() never runs its default branch; and
\* esp_now_send is called at most once per wake cycle, and only when the
\* MPU window is complete and no enabled aux sampler has a read outstanding.
ForwardSteps ==
    {<<"STATE_INIT", "STATE_SAMPLING">>,
     <<"STATE_SAMPLING", "STATE_PROCESSING">>,
     <<"STATE_PROCESSING", "STATE_TRANSMITTING">>,
     <<"STATE_TRANSMITTING", "STATE_SLEEPING">>,
     <<"STATE_SAMPLING", "STATE_SLEEPING">>}

SamplersSettled ==
    /\ ~(/\ mpuSampler.initialized_
         /\ mpuSampler.targetSamples_ > 0
         /\ mpuSampler.samplesTaken_ < mpuSampler.targetSamples_)
    /\ firmware.ds18b20 => ds18b20Sampler.state_ # "Converting"
    /\ firmware.bmp280 => bmp280Sampler.state_ # "Reading"

StateMovesForward ==
    /\ [](pc = "loop" =>
            currentState \in {"STATE_SAMPLING", "STATE_PROCESSING",
                              "STATE_TRANSMITTING", "STATE_SLEEPING"})
    /\ [][(currentState' # currentState /\ pc # "asleep") =>
            <<currentState, currentState'>> \in ForwardSteps]_vars
    /\ [][(LoopTransmitting /\ sendOut'.r.sends > 0) =>
            /\ sendOut = NoSend
            /\ sendOut'.r.sends = 1
            /\ SamplersSettled]_vars

\* A cycle of the build with both aux sensors has sent its packet after
\* all three samplers became ready, and is about to sleep.
SentAfterSamplingWitness ==
    /\ pc = "loop"
    /\ currentState = "STATE_SLEEPING"
    /\ sendOut.r.sends = 1
    /\ firmware.ds18b20 /\ firmware.bmp280
    /\ MpuSampler_ready(mpuSampler)
    /\ Ds18b20Sampler_ready(ds18b20Sampler)
    /\ bmp280Sampler.state_ = "Ready"


\* C37: every wake cycle in which the samplers deliver promptly ends with
\* exactly one transmitted packet, on every boot path, a power-on boot
\* without calibration posture included. (A cycle whose ESP-NOW start
\* fails is left aside.)
PromptCycleSendsOnce ==
    [][(/\ pc = "loop"
        /\ pc' = "asleep"
        /\ ~stalled'
        /\ sendOut'.r.outcome # "init failed")
          => sendOut'.r.sends = 1]_vars


\* C38: every transmitted packet carries a BatteryMv value that
\* readVoltage() returned earlier in the same wake cycle, on every boot
\* path; the initial value 0 of `voltage` is never transmitted.
BatteryItems(mem) ==
    SelectSeq(FrameItems(mem), LAMBDA it : it.type = TypeBatteryMv)

BatteryReadBeforeSend ==
    (pc \in {"loop", "asleep"} /\ sendOut.r.sends = 1) =>
        /\ voltage \in VccReadings
        /\ Len(BatteryItems(sendOut.r.packet)) = 1
        /\ BatteryItems(sendOut.r.packet)[1].value = voltage
        /\ BatteryItems(sendOut.r.packet)[1].value # 0

\* C39: a wake cycle that runs normalMode(), the deep-sleep wakes after the
\* 60 calibration iterations among them, has isCalibrationMode() false, so
\* that the WAKE_TIMEOUT test of STATE_SAMPLING applies to it. (After a
\* deep-sleep wake, setup leaves sleep_interval at NORMAL_INTERVAL exactly
\* when it ran normalMode().)
NormalModeOutOfCalibration ==
    (/\ resetReason = "REASON_DEEP_SLEEP_AWAKE"
     /\ pc \in {"start", "loop"}
     /\ sleep_interval = NORMAL_INTERVAL)
        => ~isCalibrationMode(calibrationIterations)


\* C40: in every build, with each aux reading finite or not,
\* sendSensorData keeps itemCount within TILTED_ITEM_CAPACITY and the
\* computed packet length within the stack buffer of
\* 12 + 24 + 8 * TILTED_ITEM_CAPACITY bytes; and
\* tilted_readings_packet_size is neither 0 nor above 2076 for a name of
\* at most 24 bytes and any 8-bit item count.
ItemsFitBuffer ==
    /\ sendOut.via = "sendSensorData" =>
          /\ sendOut.r.itemCount <= sendOut.r.capacity
          /\ sendOut.r.bufSize =
                HeaderSize + TILTED_MAX_NAME_LEN + ItemSize * sendOut.r.capacity
          /\ sendOut.r.pktLen <= sendOut.r.bufSize
          /\ sendOut.r.outcome \notin {"sizing failed", "too large"}
    /\ sendOut # NoSend =>
          \A nameLen \in 0..TILTED_MAX_NAME_LEN, itemCount \in 0..255 :
             /\ tilted_readings_packet_size(nameLen, itemCount) > 0
             /\ tilted_readings_packet_size(nameLen, itemCount) <= 2076

\* The build with both aux sensors, both readings finite, has sent a packet
\* with as many items as items[] holds.
FullItemArrayWitness ==
    /\ sendOut.via = "sendSensorData"
    /\ sendOut.r.outcome = "sent"
    /\ sendOut.r.capacity = 6
    /\ sendOut.r.itemCount = sendOut.r.capacity
    /\ sendOut.r.pktLen < sendOut.r.bufSize

====
